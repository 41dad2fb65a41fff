----------------------------- MODULE JumpLengths -----------------------------
(***************************************************************************)
(* remove_labels of lab_to_targetScript.sml: jumps to labels become        *)
(* instructions with offsets.  How long an instruction is may depend on    *)
(* its offset, and the offsets depend on how long the instructions are.    *)
(* The pass computes label positions and encodes again until no length     *)
(* changes, sets the padding before labels, and encodes a last time.       *)
(*                                                                         *)
(* Sections are written one after the other, each with a line for its      *)
(* beginning, the label Lab k 0.  Every pass goes line by line.  Offsets   *)
(* are integers: code is far shorter than half the address space.          *)
(***************************************************************************)
EXTENDS Integers, Sequences, FiniteSets

CONSTANTS
  Skips,      \* lengths of the Skip instruction
  Codes,      \* lines of a program, for each length of Skip
  StartPos,   \* c.pos: where the code will be
  InitClock   \* 5 for every target

\* An encoder: the length of an instruction, and what is added to it by an
\* offset beyond each of three windows around 0; no encoder has more.
Beyond(v, window) == IF window.low <= v /\ v <= window.high THEN 0 ELSE window.more
EncLen(enc, v) ==
  enc.base + Beyond(v, enc.first) + Beyond(v, enc.second) + Beyond(v, enc.third)

Window == [low : {n \in Int : n <= 0}, high : Nat, more : Nat]
Encoder == [base : Nat, first : Window, second : Window, third : Window, reach : Nat]
\* ok is FALSE for a call, and for a jump to a section that does not exist: the
\* encoder is given address 0 for it.
Line(n) ==
  [is : {"section", "label"}] \cup [is : {"asm"}, len : Nat]
  \cup [is : {"jump"}, enc : Encoder, ok : BOOLEAN, fixed : {FALSE}, to : 1 .. n]
  \cup [is : {"jump"}, enc : Encoder, ok : BOOLEAN, fixed : {TRUE}, to : {a \in Int : a <= StartPos}]
EvenLine(line) ==
  /\ line.is = "asm" => line.len % 2 = 0
  /\ line.is = "jump" => /\ line.enc.base % 2 = 0 /\ line.enc.first.more % 2 = 0
                         /\ line.enc.second.more % 2 = 0 /\ line.enc.third.more % 2 = 0

\* The code of earlier compilations and the foreign functions are before this
\* code; a section ends with a label (sec_ends_with_label).  A Skip of more
\* than a byte is as long as the alignment of the target's code, a power of 2,
\* and every instruction is a multiple of it (enc_ok of asmPropsScript.sml).
ASSUME CodeAssumption ==
  /\ StartPos \in Nat /\ StartPos % 2 = 0 /\ InitClock \in Nat
  /\ \A s \in Skips :
       /\ s \in Nat \ {0} /\ (s = 1 \/ s % 2 = 0)
       /\ \A code \in Codes[s] :
            /\ s # 1 => \A k \in 1 .. Len(code) : EvenLine(code[k])
            /\ code \in Seq(Line(Len(code))) /\ Len(code) > 0
            /\ code[1].is = "section" /\ code[Len(code)].is = "label"
            /\ \A k \in 2 .. Len(code) : code[k].is = "section" => code[k - 1].is = "label"
            /\ \A k \in 1 .. Len(code) :
                 code[k].is = "jump" /\ ~code[k].fixed => code[code[k].to].is \in {"section", "label"}

VARIABLES
  skip, code,
  len, w,       \* of each line: bytes, and the offset it was last encoded with
  labs, again,  \* where each line ends: the labels of the loop, and after it
  i, pos,       \* the line a pass is at, and its position
  done, clock,
  phase         \* "labels", "encode", "align", "relabel", "reencode", or the result

vars == <<skip, code, len, w, labs, again, i, pos, done, clock, phase>>

Lines == DOMAIN code
Jump(k) == code[k].is = "jump"
Label(k) == code[k].is = "label"

\* enc_sec_list: every jump encoded for offset 0, every label as long as Skip.
Init ==
  /\ skip \in Skips /\ code \in Codes[skip]
  /\ len = [k \in Lines |->
              IF Jump(k) THEN EncLen(code[k].enc, 0)
              ELSE IF Label(k) THEN skip ELSE IF code[k].is = "asm" THEN code[k].len ELSE 0]
  /\ w = [k \in Lines |-> 0]
  /\ labs = [k \in Lines |-> 0] /\ again = [k \in Lines |-> 0]
  /\ i = 1 /\ pos = StartPos
  /\ done = TRUE /\ clock = InitClock
  /\ phase = "labels"

More == i <= Len(code)
Pass(next) ==
  /\ ~More
  /\ i' = 1 /\ pos' = StartPos /\ phase' = next
  /\ UNCHANGED <<skip, code>>

compute_labels_alt ==
  \/ /\ phase \in {"labels", "relabel"} /\ More
     /\ pos' = pos + len[i] /\ i' = i + 1
     /\ IF phase = "labels" THEN labs' = [labs EXCEPT ![i] = pos'] /\ UNCHANGED again
        ELSE again' = [again EXCEPT ![i] = pos'] /\ UNCHANGED labs
     /\ UNCHANGED <<skip, code, len, w, done, clock, phase>>
  \/ /\ phase = "labels" /\ Pass("encode") /\ done' = TRUE
     /\ UNCHANGED <<len, w, labs, again, clock>>
  \/ /\ phase = "relabel" /\ Pass("reencode") /\ done' = TRUE
     /\ UNCHANGED <<len, w, labs, again, clock>>

Target(table, k) == IF code[k].fixed THEN code[k].to ELSE table[code[k].to]
\* The offset from the end of the instruction.
get_jump_offset_after(table) == Target(table, i) - (pos + len[i])
get_jump_offset(table) == Target(table, i) - pos

AtLeast(m, n) == IF m < n THEN n ELSE m

\* Done when the offsets are as before, not the lengths.
enc_line_same_offsets(table) ==
  LET w1 == get_jump_offset(table)
      l1 == IF w[i] = w1 THEN len[i] ELSE AtLeast(EncLen(code[i].enc, w1), len[i])
  IN  /\ w' = [w EXCEPT ![i] = w1]
      /\ len' = [len EXCEPT ![i] = l1]
      /\ done' = (done /\ w[i] = w1)
      /\ pos' = pos + l1

\* A jump never becomes shorter, or the iteration might not end.
enc_line_again(table) ==
  LET w1 == get_jump_offset(table)
      l1 == IF w[i] = w1 THEN len[i] ELSE AtLeast(EncLen(code[i].enc, w1), len[i])
  IN  /\ w' = [w EXCEPT ![i] = w1]
      /\ len' = [len EXCEPT ![i] = l1]
      /\ done' = (done /\ l1 = len[i])
      /\ pos' = pos + l1

enc_lines_again ==
  /\ phase \in {"encode", "reencode"} /\ More
  /\ IF Jump(i) THEN enc_line_again(IF phase = "encode" THEN labs ELSE again)
     ELSE pos' = pos + len[i] /\ UNCHANGED <<w, len, done>>
  /\ i' = i + 1
  /\ UNCHANGED <<skip, code, labs, again, clock, phase>>

Repeat ==
  /\ phase = "encode"
  /\ IF done THEN Pass("align") /\ UNCHANGED clock
     ELSE IF clock = 0 THEN Pass("clock") /\ UNCHANGED clock
     ELSE Pass("labels") /\ clock' = clock - 1
  /\ UNCHANGED <<len, w, labs, again, done>>

\* Two bytes of padding where none are needed.
PaddingTo2(p) == 2 - (p % 2)
\* A label is at an even position.
Padding(p) == p % 2

upd_lab_len ==
  \/ /\ phase = "align" /\ More
     /\ len' = (IF Label(i) THEN [len EXCEPT ![i] = Padding(pos)] ELSE len)
     /\ pos' = pos + len'[i] /\ i' = i + 1
     /\ UNCHANGED <<skip, code, w, labs, again, done, clock, phase>>
  \/ /\ phase = "align" /\ Pass("relabel")
     /\ UNCHANGED <<len, w, labs, again, done, clock>>

\* add_nop: the instruction that gets the Skip for label k, if any.
Padded(j, k) ==
  /\ j < k /\ code[j].is \in {"asm", "jump"}
  /\ \A m \in j + 1 .. k - 1 : Label(m)
PaddingOf(j) == {k \in Lines : Label(k) /\ len[k] = 1 /\ Padded(j, k)}
Nops(j) == skip * Cardinality(PaddingOf(j))
pad_code == [j \in Lines |-> IF Label(j) THEN 0 ELSE len[j] + Nops(j)]

InReach == \A k \in Lines : Jump(k) => -code[k].enc.reach <= w[k] /\ w[k] <= code[k].enc.reach

\* all_enc_ok_light refuses calls, and offsets the target cannot encode, and
\* zero_labs_acc_exist jumps to sections that do not exist.
AllOk == \A k \in Lines : Jump(k) => code[k].ok

Finish ==
  /\ phase = "reencode"
  /\ Pass(IF ~done THEN "undone" ELSE IF InReach /\ AllOk THEN "done" ELSE "refused")
  /\ len' = pad_code
  /\ UNCHANGED <<w, labs, again, done, clock>>

Next == compute_labels_alt \/ enc_lines_again \/ Repeat \/ upd_lab_len \/ Finish
Spec == Init /\ [][Next]_vars

------------------------------------------------------------------------------
\* "it ought to be impossible for done to be false here": moving labels to
\* even positions changes no length of an instruction.
FinalDone == phase # "undone"

\* Where each line of the result ends, counted in the bytes that are written.
End[k \in 0 .. Len(code)] == IF k = 0 THEN StartPos ELSE End[k - 1] + len[k]

\* Every offset in the code that is returned is the distance from its
\* instruction to its target, fits the bytes it has, and labels are even.
OffsetsExact ==
  phase = "done" =>
    \A k \in Lines :
      /\ Label(k) => End[k] % 2 = 0
      /\ Jump(k) => /\ w[k] = (IF code[k].fixed THEN code[k].to ELSE End[code[k].to]) - End[k - 1]
                    /\ EncLen(code[k].enc, w[k]) <= len[k]

\* The lengths an instruction may have: they change at the ends of windows.
Edges(enc) == UNION {{x.low - 1, x.low, x.high + 1} : x \in {enc.first, enc.second, enc.third}}
Lengths(enc) == {EncLen(enc, v) : v \in Edges(enc)}
\* The lengths that jumps have got beyond their first ones, or gone past.
Growths ==
  UNION {{<<k, l>> : l \in {m \in Lengths(code[k].enc) : code[k].enc.base < m /\ m <= len[k]}} :
         k \in {j \in Lines : Jump(j)}}

\* The iteration gives up for want of clock only when the jumps grew more often
\* than the clock allows: by a chain of jumps of which each pushes another one
\* out of its window.  No other program takes so many passes.
ClockSpent == phase = "clock" => Cardinality(Growths) > InitClock
=============================================================================
