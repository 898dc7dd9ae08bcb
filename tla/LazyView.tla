------------------------------- MODULE LazyView -------------------------------
(***************************************************************************)
(* What transcode_views promise, "lazily converting between Unicode        *)
(* encodings": their elements are the conversion of all of base; reading   *)
(* an iterator, whichever others there are, gives the next of them; and no *)
(* input is looked at, nor reported as malformed, before the next element  *)
(* depends on it.  The conversion by hand is a parameter, and there are no *)
(* positions or arrays here.                                               *)
(***************************************************************************)
EXTENDS Integers, Sequences, FiniteSetsExt

CONSTANTS
  Views, Iterators,
  fed(_, _, _),            \* units converted from one encoding to another
  fed_all(_, _, _),        \* and told that they are all
  any_well_formed(_, _, _) \* what the conversion knows of them

VARIABLES
  from, to, base,   \* what is converted
  views,            \* the views of it
  accused,          \* the views that have reported malformed input
  parent,           \* parent[i]: {} or the view that iterator i came from
  read              \* read[i]: the elements read through it

vars == <<from, to, base, views, accused, parent, read>>

converted(n) ==
  IF n = Len(base) THEN fed_all(from, to, base) ELSE fed(from, to, SubSeq(base, 1, n))

elements == converted(Len(base)).out

\* The fewest code units that make more than k elements, or all of them.
needed(k) ==
  Min({n \in 0 .. Len(base) : Len(converted(n).out) > k} \union {Len(base)})

Looks(k, parents) ==
  accused' = IF any_well_formed(from, to, converted(needed(k)).coder)
             THEN accused ELSE accused \union parents

Init ==
  /\ views = {CHOOSE v \in Views : TRUE}
  /\ accused = {}
  /\ parent = [i \in Iterators |-> {}] /\ read = [i \in Iterators |-> <<>>]

CopyView(v, w) ==
  /\ v \in views /\ w \notin views /\ views' = views \union {w}
  /\ accused' = IF v \in accused THEN accused \union {w} ELSE accused
  /\ UNCHANGED <<parent, read>>

Begin(i, v) ==
  /\ parent[i] = {} /\ v \in views
  /\ parent' = [parent EXCEPT ![i] = {v}]
  /\ read' = [read EXCEPT ![i] = <<>>]
  /\ Looks(0, {v})
  /\ UNCHANGED views

Read(i) ==
  LET k == Len(read[i])
  IN  /\ parent[i] # {} /\ k < Len(elements)
      /\ read' = [read EXCEPT ![i] = Append(@, elements[k + 1])]
      /\ Looks(k + 1, parent[i])
      /\ UNCHANGED <<views, parent>>

Copy(i, j) ==
  /\ parent[i] # {} /\ parent[j] = {}
  /\ parent' = [parent EXCEPT ![j] = parent[i]]
  /\ read' = [read EXCEPT ![j] = read[i]]
  /\ UNCHANGED <<views, accused>>

Drop(i) ==
  /\ parent' = [parent EXCEPT ![i] = {}]
  /\ read' = [read EXCEPT ![i] = <<>>]
  /\ UNCHANGED <<views, accused>>

Next ==
  /\ \/ \E v, w \in Views : CopyView(v, w)
     \/ \E i \in Iterators :
          \/ \E v \in Views : Begin(i, v)
          \/ Read(i)
          \/ \E j \in Iterators : Copy(i, j)
          \/ Drop(i)
  /\ UNCHANGED <<from, to, base>>

Spec == Init /\ [][Next]_vars
=============================================================================
