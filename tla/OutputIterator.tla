---------------------------- MODULE OutputIterator ----------------------------
(***************************************************************************)
(* The class icubaby::iterator: a program assigns code units or bytes to   *)
(* its objects, which pass them to the one transcoder they all point to    *)
(* and write what comes out through an output iterator of their own,       *)
(* `out_`.  That one either appends, wherever it is copied to (such as a   *)
(* std::back_inserter), or is a position in an array, that each copy keeps *)
(* for itself (a pointer).                                                 *)
(***************************************************************************)
EXTENDS AnyTranscoder

CONSTANTS
  Objects,      \* names for the iterators a program may hold
  Programs,     \* <<from, to, destination, form>> a program may be made of
  Units,        \* Units[from]: the code units it may assign
  MaxAssigned   \* the most it assigns

ASSUME ProgramsAssumption ==
  Programs \subseteq
    InputTypes \X Encodings \X {"appends", "position"} \X {"pre", "post"}
ASSUME UnitsAssumption ==
  /\ Units[std_byte] \subseteq Byte /\ Units[8] \subseteq Byte
  /\ Units[16] \subseteq CodeUnit16
  /\ \A unit \in Units[32] : unit \in Nat
ASSUME BoundAssumption == MaxAssigned \in Nat

VARIABLES
  program,
  coder,        \* *transcoder_
  out_,         \* out_[i]: the position where iterator i writes next; 0 if there is no i
  stored,       \* the code units in the destination
  assigned,     \* the code units the program has assigned
  ended         \* it = t.end_cp (it) has been executed

vars == <<program, coder, out_, stored, assigned, ended>>

from == program[1]
to == program[2]
appends == program[3] = "appends"

Init ==
  /\ program \in Programs
  /\ coder = any_transcoder(program[1], program[2])
  /\ \E i \in Objects : out_ = [o \in Objects |-> IF o = i THEN 1 ELSE 0]
  /\ stored = <<>>
  /\ assigned = <<>> /\ ended = FALSE

\* Writing units from a position of the destination on.
overwritten(position, units) ==
  SubSeq(stored, 1, position - 1) \o units
    \o SubSeq(stored, position + Len(units), Len(stored))

\* An object assigned to, or passed to end_cp, writes and moves its out_.
written_at(position, r) ==
  /\ coder' = r.coder
  /\ stored' = IF appends THEN stored \o r.out ELSE overwritten(position, r.out)

not_moved(position, r) == position
moved_past(position, r) == IF appends THEN position ELSE position + Len(r.out) + 1
moved(position, r) == IF appends THEN position ELSE position + Len(r.out)

(***************************************************************************)
(* The iterators a program may use.  Any copy of an appender will do; of a *)
(* position, as of other output iterators, only one that is up to date,    *)
(* not a copy made before the last assignment.                             *)
(***************************************************************************)
usable == {i \in Objects : out_[i] # 0 /\ \A o \in Objects : out_[o] <= out_[i]}

CanAssign(i) == ~ ended /\ i \in usable /\ Len(assigned) < MaxAssigned

\* *i = unit; ++i, as std::copy does: the iterator itself is assigned to.
AssignThenIncrement(i, unit) ==
  LET r == any_call(from, to, coder, unit)
  IN  /\ CanAssign(i) /\ program[4] = "pre"
      /\ written_at(out_[i], r)
      /\ out_' = [out_ EXCEPT ![i] = moved(@, r)]
      /\ assigned' = Append(assigned, unit)
      /\ UNCHANGED <<program, ended>>

\* *(i++) = unit: the copy that operator++ (int) returns is assigned to.
PostIncrementAndAssign(i, unit) ==
  LET r == any_call(from, to, coder, unit)
  IN  /\ CanAssign(i) /\ program[4] = "post"
      /\ written_at(out_[i], r)
      /\ assigned' = Append(assigned, unit)
      /\ UNCHANGED <<program, out_, ended>>

\* j is constructed from i, or i is assigned to it.
Copy(i, j) ==
  /\ ~ ended /\ i \in usable /\ i # j
  /\ out_' = [out_ EXCEPT ![j] = out_[i]]
  /\ UNCHANGED <<program, coder, stored, assigned, ended>>

\* i = t.end_cp (i)
EndCp(i) ==
  LET r == any_end_cp(from, to, coder)
  IN  /\ ~ ended /\ i \in usable /\ ended' = TRUE
      /\ written_at(out_[i], r)
      /\ out_' = [out_ EXCEPT ![i] = moved(@, r)]
      /\ UNCHANGED <<program, assigned>>

Next ==
  \E i \in Objects :
    \/ \E unit \in Units[from] : AssignThenIncrement(i, unit) \/ PostIncrementAndAssign(i, unit)
    \/ \E j \in Objects : Copy(i, j)
    \/ EndCp(i)

Spec == Init /\ [][Next]_vars

-----------------------------------------------------------------------------
\* Each iterator writes within what is stored, or just after it.
TypeOK ==
  /\ \A i \in Objects : out_[i] \in 0 .. Len(stored) + 1
  /\ Len(assigned) <= MaxAssigned

\* What calling the transcoder for each unit, and end_cp, writes.
ByHand == (IF ended THEN fed_all(from, to, assigned) ELSE fed(from, to, assigned)).out

(***************************************************************************)
(* Whatever an assignment writes, nothing, one or several code units, and  *)
(* whichever copies of the iterator the units of one code point are        *)
(* assigned to, the destination up to the iterator holds the conversion of *)
(* everything assigned.  (The header declares an output iterator, of which *)
(* *it++ = unit is the canonical use.)                                     *)
(***************************************************************************)
HoldsConversion ==
  \A i \in usable : ByHand = IF appends THEN stored ELSE SubSeq(stored, 1, out_[i] - 1)

(***************************************************************************)
(* No assignment destroys what an earlier one has written.                 *)
(***************************************************************************)
NothingOverwritten == [][IsPrefix(stored, stored')]_vars
=============================================================================
