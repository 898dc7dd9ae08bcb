---------------------------- MODULE TranscodeView -----------------------------
(***************************************************************************)
(* A transcode_view over a range `base` of code units or bytes, the copies *)
(* made of it (as every range adaptor does that it is passed to), and the  *)
(* iterators a program holds on them: made by begin(), copied, incremented *)
(* and dropped in any order.  Each iterator owns a transcoder and a small  *)
(* array of output; those of one view share its mutable well_formed_.      *)
(* Positions in base count from 1; Len(base) + 1 is its end.  A program    *)
(* whose assertion fails stops.                                            *)
(***************************************************************************)
EXTENDS ByteOrderMarks

CONSTANTS
  Views,        \* names for the view and the copies of it
  Iterators,    \* names for the iterators the program may hold at once
  Sources       \* the <<from, to, base, single_pass>> the view may be made of

ASSUME ViewsAssumption == Views # {}
ASSUME SourcesAssumption ==
  \A s \in Sources :
    /\ s[1] \in InputTypes /\ s[2] \in Encodings /\ s[4] \in BOOLEAN
    /\ s[3] \in Seq(CASE s[1] \in {std_byte, 8} -> Byte [] s[1] = 16 -> CodeUnit16 [] s[1] = 32 -> Nat)

VARIABLES
  from, to,         \* FromEncoding and ToEncoding
  base,             \* base_: the underlying range
  single_pass,      \* it is an input_range only, such as the rest of a stream
  views,            \* the views there are
  view_well_formed, \* transcode_view::well_formed_ of each
  it,               \* it[i]: the iterator i, or none
  read,             \* read[i]: the elements the program has read through i
  failed            \* the assertion that has failed, if any

source == <<from, to, base, single_pass>>
vars == <<from, to, base, single_pass, views, view_well_formed, it, read, failed>>

none == [current |-> 0]

held == {i \in Iterators : it[i] # none}

end == Len(base) + 1

(***************************************************************************)
(* state::fill.  after[n] is the transcoder, and what it wrote, after n    *)
(* more code units; the loop runs until a call writes something or the     *)
(* input ends; at the end of the input end_cp() adds what was unfinished.  *)
(* `next` (not the position before the call) is where the input has got to.*)
(***************************************************************************)
position_beyond(next, n) == next + n + 1
position_after(next, n) == next + n

after_units(coder, next) ==
  LET after[n \in 0 .. end - next] ==
        IF n = 0 THEN Result(coder, <<>>)
        ELSE any_call(from, to, after[n - 1].coder, base[next + n - 1])
  IN  after

without_end_cp(r) == r
with_end_cp(r) == then(r, any_end_cp(from, to, r.coder))

enough(after) ==
  Min({n \in DOMAIN after : after[n].out # <<>>} \union {Cardinality(DOMAIN after) - 1})

at_last(n, s, r) == IF s.next + n = end THEN with_end_cp(r) ELSE r

refilled(n, s, r) ==
  [s EXCEPT !.current = s.next, !.next = position_after(s.next, n),
            !.coder = r.coder, !.out = r.out, !.first = 0]

stopped(s, after) ==
  LET n == enough(after) IN refilled(n, s, at_last(n, s, after[n]))

fill(s) == stopped(s, after_units(s.coder, s.next))

\* The iterator's own state: out_[first_], and whether the array is spent.
empty(s) == s.first = Len(s.out)
front(s) == s.out[s.first + 1]

\* What begin() and end() return.
constructed(view, position) ==
  LET fresh == [parent |-> view, current |-> position, next |-> position,
                coder |-> any_transcoder(from, to), out |-> <<>>, first |-> 0]
  IN  IF position # end THEN fill(fresh) ELSE fresh

refilled_from_current(s) ==
  LET advanced == [s EXCEPT !.first = @ + 1]
  IN  IF empty(advanced) THEN fill([advanced EXCEPT !.next = s.current]) ELSE advanced
refilled_before_end(s) ==
  LET advanced == [s EXCEPT !.first = @ + 1]
  IN  IF empty(advanced) /\ s.next # end THEN fill(advanced) ELSE advanced
incremented(s) ==
  LET advanced == [s EXCEPT !.first = @ + 1]
  IN  IF empty(advanced) THEN fill(advanced) ELSE advanced

\* fill reports malformed input to the view.
NoteLatest(s) ==
  view_well_formed' = [view_well_formed EXCEPT ![s.parent] = any_well_formed(from, to, s.coder)]
NoteAtEnd(s) ==
  view_well_formed' =
    [view_well_formed EXCEPT
       ![s.parent] = @ /\ (s.next = end => any_well_formed(from, to, s.coder))]
Note(s) ==
  view_well_formed' =
    [view_well_formed EXCEPT ![s.parent] = @ /\ any_well_formed(from, to, s.coder)]

(***************************************************************************)
(* An iterator compares equal to end(), or to a sentinel made of it.  Two  *)
(* iterators of a single-pass range, such as istreambuf_iterators, are at  *)
(* its end together, when the range has been used up: so current_, a copy  *)
(* of next_ before it moved on, is at the end as soon as next_ is.         *)
(***************************************************************************)
at_end(s) == (IF single_pass THEN s.next ELSE s.current) = end

equal(a, b) == a.current = b.current /\ a.parent = b.parent

Init ==
  /\ \E s \in Sources : from = s[1] /\ to = s[2] /\ base = s[3] /\ single_pass = s[4]
  /\ views = {CHOOSE v \in Views : TRUE}
  /\ view_well_formed = [v \in Views |-> TRUE]
  /\ it = [i \in Iterators |-> none]
  /\ read = [i \in Iterators |-> <<>>]
  /\ failed = "nothing"

(***************************************************************************)
(* What fill has left in s is iterator i's, unless it has written past the *)
(* end of out_: "out_ buffer overflow!".                                   *)
(***************************************************************************)
overflows(s) == Len(s.out) > max_output_bytes(from, to)

Becomes(i, s, elements) ==
  IF overflows(s)
  THEN failed' = "overflow" /\ UNCHANGED <<view_well_formed, it, read>>
  ELSE /\ it' = [it EXCEPT ![i] = s]
       /\ read' = [read EXCEPT ![i] = elements]
       /\ Note(s)
       /\ UNCHANGED failed

Running == failed = "nothing"

\* The copy knows what the view knew.
CopyView(v, w) ==
  /\ Running /\ ~ single_pass
  /\ v \in views /\ w \notin views /\ views' = views \union {w}
  /\ view_well_formed' = [view_well_formed EXCEPT ![w] = view_well_formed[v]]
  /\ UNCHANGED <<source, it, read, failed>>

\* Of a single-pass range a program uses one iterator.
Begin(i, v) ==
  /\ Running /\ i \notin held /\ v \in views
  /\ single_pass => held = {}
  /\ Becomes(i, constructed(v, 1), <<>>)
  /\ UNCHANGED <<source, views>>

\* The body of a loop that compares with end(): read *i, then ++i.
CanRead(i) == Running /\ i \in held /\ ~ at_end(it[i])

ReadAndIncrement(i) ==
  /\ CanRead(i) /\ ~ empty(it[i])
  /\ \E s \in {incremented(it[i])} : Becomes(i, s, Append(read[i], front(it[i])))
  /\ UNCHANGED <<source, views>>

\* front() asserts that there is an element.
ReadNothing(i) ==
  /\ CanRead(i) /\ empty(it[i])
  /\ failed' = "empty"
  /\ UNCHANGED <<source, views, view_well_formed, it, read>>

Copy(i, j) ==
  /\ Running /\ ~ single_pass
  /\ i \in held /\ j \notin held
  /\ it' = [it EXCEPT ![j] = it[i]]
  /\ read' = [read EXCEPT ![j] = read[i]]
  /\ UNCHANGED <<source, views, view_well_formed, failed>>

Drop(i) ==
  /\ Running /\ ~ single_pass
  /\ i \in held
  /\ it' = [it EXCEPT ![i] = none]
  /\ read' = [read EXCEPT ![i] = <<>>]
  /\ UNCHANGED <<source, views, view_well_formed, failed>>

Next ==
  \/ \E v, w \in Views : CopyView(v, w)
  \/ \E i \in Iterators :
       \/ \E v \in Views : Begin(i, v)
       \/ ReadAndIncrement(i)
       \/ ReadNothing(i)
       \/ \E j \in Iterators : Copy(i, j)
       \/ Drop(i)

Spec == Init /\ [][Next]_vars

(***************************************************************************)
(* Programs whose loops run on until they reach end().  The formula is     *)
(* WF_vars(Loop(i)), its ENABLED written as CanRead(i).                    *)
(***************************************************************************)
Loop(i) == ReadAndIncrement(i) \/ ReadNothing(i)

FairSpec ==
  Spec /\ \A i \in Iterators : []<>(~ CanRead(i)) \/ []<><<Loop(i)>>_vars

-----------------------------------------------------------------------------
TypeOK ==
  /\ view_well_formed \in [Views -> BOOLEAN]
  /\ failed \in {"nothing", "overflow", "empty"}
  /\ \A i \in held :
       /\ it[i].parent \in views
       /\ it[i].current \in 1 .. end
       /\ it[i].next \in it[i].current .. end
       /\ it[i].first \in 0 .. Len(it[i].out)

by_hand == fed_all(from, to, base)

truth == any_well_formed(from, to, by_hand.coder)

(***************************************************************************)
(* fill never writes past the end of out_, though one fill may hold the    *)
(* output of a call and of end_cp(), except in a view of bytes in one of   *)
(* two cases, as out_ has room for one code point then: a byte order mark  *)
(* that is given up is replayed, up to four bytes, by one call or the end; *)
(* and malformed UTF-16 may make one call, and the end, write more.        *)
(***************************************************************************)
MalformedUtf16 == Announced(base).encoding = 16 /\ ~ truth

OverflowsInBytesOnly ==
  failed = "overflow" => from = std_byte /\ (Abandoned(base) \/ MalformedUtf16)

(***************************************************************************)
(* An iterator that is not equal to end() has an element to read, as       *)
(* front() and advance() assert, except in a view of bytes all of whose    *)
(* elements have been read: what is left of base is a byte order mark, or  *)
(* an incomplete code unit, that makes none.                               *)
(***************************************************************************)
NeverEmpty ==
  \A i \in held :
    ~ at_end(it[i]) /\ empty(it[i]) => from = std_byte /\ read[i] = by_hand.out

(***************************************************************************)
(* The view yields nothing but what a conversion by hand does: what has    *)
(* been read through an iterator is a prefix of it, and, if the range can  *)
(* be passed over again, all of it once the iterator reaches the end,      *)
(* however iterators are copied and interleaved.                           *)
(***************************************************************************)
SameAsByHand ==
  \A i \in held :
    /\ IsPrefix(read[i], by_hand.out)
    /\ at_end(it[i]) /\ ~ single_pass => read[i] = by_hand.out

(***************************************************************************)
(* A view's well_formed() accuses only malformed input, and an iterator    *)
(* that has reached the end leaves the view it came from knowing the truth *)
(* about all of it.                                                        *)
(***************************************************************************)
ViewKnows ==
  /\ \A v \in views : ~ view_well_formed[v] => ~ truth
  /\ \A i \in held : at_end(it[i]) => view_well_formed[it[i].parent] = truth

(***************************************************************************)
(* The view is lazy: it implements LazyView, in which an element is read   *)
(* from, and malformed input reported of, the shortest beginning of base   *)
(* that decides it; a copy of the view is not told of what the original's  *)
(* iterators find, nor the original of what the copy's do.                 *)
(***************************************************************************)
Lazy == INSTANCE LazyView
  WITH accused <- {v \in views : ~ view_well_formed[v]},
       parent  <- [i \in Iterators |-> IF i \in held THEN {it[i].parent} ELSE {}]

LazySpec == Lazy!Spec

(***************************************************************************)
(* A loop over the view ends: an iterator that the program does not drop   *)
(* reaches the end.  Only a view of bytes may stop the program before.     *)
(***************************************************************************)
LoopsEnd ==
  \A i \in Iterators :
    i \in held ~> \/ i \notin held
                  \/ at_end(it[i])
                  \/ ~ Running /\ from = std_byte

-----------------------------------------------------------------------------
(***************************************************************************)
(* What the documentation says and the class does not do.                  *)
(***************************************************************************)
(***************************************************************************)
(* The iterator is declared a forward iterator: equal iterators that are   *)
(* not at the end designate the same element.                              *)
(***************************************************************************)
EqualIsSameElement ==
  \A i, j \in held :
    equal(it[i], it[j]) /\ ~ at_end(it[i]) => front(it[i]) = front(it[j])

(***************************************************************************)
(* The view of any input_range "produces the equivalent code points in the *)
(* encoding given by ToEncoding": a program that reads up to the end has   *)
(* read them all, of a range that can be passed over once only too.        *)
(***************************************************************************)
SinglePassIsWhole ==
  single_pass => \A i \in held : at_end(it[i]) => read[i] = by_hand.out

(***************************************************************************)
(* out_ "allows for the largest number of bytes that the transcoder can    *)
(* produce", and front() is not called on an empty array: no program that  *)
(* reads a view up to its end fails an assertion.                          *)
(***************************************************************************)
NothingFails == Running
=============================================================================
