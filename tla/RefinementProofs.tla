---------------------------- MODULE RefinementProofs ----------------------------
(***************************************************************************)
(* Spec => ImplementsManagedHeap, for all values of the constants.         *)
(*                                                                         *)
(* The invariant adds the identities to GraphInv: every object's is one    *)
(* that NEW has given out, and no two objects of the graph share one.      *)
(* Hence references in the graph and identities name each other uniquely,  *)
(* and ReachLaw: the managed heap's Reachable, taken of what is seen of    *)
(* any complete set of objects, is what is seen of the graph.  A bytecode  *)
(* is then a matter of its operands.  A function D from references to      *)
(* identities maps the call stacks before and after the step, and commutes *)
(* with what the bytecode does to them (Mapped...).  A step of the         *)
(* collector changes nothing by CollectView.                               *)
(***************************************************************************)
EXTENDS GraphProofs, SequenceTheorems

LEMMA InitManaged == ASSUME Init PROVE Managed!Init
<1>1. frames = <<>> /\ statics = [s \in Statics |-> Null] /\ next = 1 /\ risk = {}
  BY DEF Init, HeapInit, GcInit, RuntimeInit
<1>2. Kept
  BY <1>1 DEF Kept
<1>3. CallsSeen = <<>>
  BY <1>1 DEF CallsSeen
<1>4. StaticsSeen = [s \in Statics |-> Null]
  BY <1>1 DEF StaticsSeen, Denote
<1>5. GraphSeen = {}
  <2>1. Slots = {}
    BY <1>1 DEF Slots, Roots, OperandRefs, StaticRefs
  <2>2. Graph \subseteq {}
    BY <2>1, GraphLaws DEF GraphLaw
  <2> QED BY <2>2 DEF GraphSeen, Graph
<1> QED BY <1>1, <1>2, <1>3, <1>4, <1>5 DEF Managed!Init

LEMMA ForfeitManaged == ASSUME Kept, ~Kept' PROVE Managed!Forfeit
BY DEF Managed!Forfeit

LEMMA StutterManaged == ASSUME ~Kept, ~Kept' PROVE UNCHANGED Managed!vars
BY DEF Managed!vars, Kept

\* A step that cannot be seen and makes no object.
LEMMA UnseenManaged ==
    ASSUME Kept, Kept', View' = View, next' = next
    PROVE  UNCHANGED Managed!vars
BY DEF Managed!vars, View, Kept

-------------------------------------------------------------------------------
(* Values seen through a function *)

Takes(D, R, V) == D \in [R -> V]

\* What D makes of the entries of a sequence.
Mapped(D, s) == [j \in DOMAIN s |-> D[s[j]]]

\* What D makes of a frame of values in R.
OnFrames(D, R) ==
    [f \in FrameOf(R) |-> [loc |-> [j \in 1..Locals |-> D[f.loc[j]]], stk |-> Mapped(D, f.stk)]]

LEMMA MappedFacts ==
    ASSUME NEW R, NEW V, NEW D, Takes(D, R, V), NEW s \in Seq(R)
    PROVE  /\ Mapped(D, s) \in Seq(V)
           /\ Len(Mapped(D, s)) = Len(s) /\ DOMAIN Mapped(D, s) = 1..Len(s)
           /\ \A j \in 1..Len(s) : Mapped(D, s)[j] = D[s[j]]
           /\ s # <<>> <=> Mapped(D, s) # <<>>
<1>1. Len(s) \in Nat /\ DOMAIN s = 1..Len(s) /\ \A j \in 1..Len(s) : s[j] \in R
  OBVIOUS
<1>2. /\ DOMAIN Mapped(D, s) = 1..Len(s)
      /\ \A j \in 1..Len(s) : Mapped(D, s)[j] = D[s[j]] /\ D[s[j]] \in V
  BY <1>1 DEF Mapped, Takes
<1>3. Mapped(D, s) \in [1..Len(s) -> V]
  BY <1>1, <1>2 DEF Mapped
<1>4. Mapped(D, s) \in Seq(V) /\ Len(Mapped(D, s)) = Len(s)
  BY <1>1, <1>3, <1>2
<1>5. s # <<>> <=> Mapped(D, s) # <<>>
  BY <1>1, <1>4, EmptySeq
<1> QED BY <1>2, <1>4, <1>5

LEMMA MappedAppend ==
    ASSUME NEW R, NEW V, NEW D, Takes(D, R, V), NEW s \in Seq(R), NEW v \in R
    PROVE  Mapped(D, Append(s, v)) = Append(Mapped(D, s), D[v])
<1>1. PICK t : t = Append(s, v)
  OBVIOUS
<1>2. t \in Seq(R) /\ Len(t) = Len(s) + 1 /\ t[Len(s) + 1] = v
      /\ \A j \in 1..Len(s) : t[j] = s[j]
  BY <1>1
<1>3. PICK m : m = Mapped(D, s)
  OBVIOUS
<1>4. m \in Seq(V) /\ Len(m) = Len(s) /\ \A j \in 1..Len(s) : m[j] = D[s[j]]
  BY <1>3, MappedFacts
<1>5. PICK n : n = Append(m, D[v])
  OBVIOUS
<1>6. n \in Seq(V) /\ Len(n) = Len(m) + 1 /\ n[Len(m) + 1] = D[v]
      /\ \A j \in 1..Len(m) : n[j] = m[j]
  BY <1>4, <1>5 DEF Takes
<1>7. /\ Mapped(D, t) \in Seq(V) /\ Len(Mapped(D, t)) = Len(t)
      /\ \A j \in 1..Len(t) : Mapped(D, t)[j] = D[t[j]]
  BY <1>2, MappedFacts
<1>8. Len(s) \in Nat
  OBVIOUS
<1>9. \A j \in 1..Len(t) : Mapped(D, t)[j] = n[j]
  BY <1>2, <1>4, <1>6, <1>7, <1>8
<1>10. Mapped(D, t) = n
  BY <1>2, <1>4, <1>6, <1>7, <1>9, SeqEqual
<1> QED BY <1>1, <1>3, <1>5, <1>10

LEMMA MappedSub ==
    ASSUME NEW R, NEW V, NEW D, Takes(D, R, V), NEW s \in Seq(R),
           NEW m \in 1..(Len(s) + 1), NEW n \in (m - 1)..Len(s)
    PROVE  SubSeq(Mapped(D, s), m, n) = Mapped(D, SubSeq(s, m, n))
<1>1. PICK t : t = SubSeq(s, m, n)
  OBVIOUS
<1>2. Len(s) \in Nat /\ m \in Nat /\ n \in Nat /\ 1 <= m /\ m <= n + 1 /\ n <= Len(s)
  OBVIOUS
<1>3. t \in Seq(R) /\ Len(t) = n - m + 1 /\ \A j \in 1..(n - m + 1) : t[j] = s[m + j - 1]
  BY <1>1, <1>2
<1>4. PICK w : w = Mapped(D, s)
  OBVIOUS
<1>5. w \in Seq(V) /\ Len(w) = Len(s) /\ \A j \in 1..Len(s) : w[j] = D[s[j]]
  BY <1>4, MappedFacts
<1>6. PICK x : x = SubSeq(w, m, n)
  OBVIOUS
<1>7. x \in Seq(V) /\ Len(x) = n - m + 1 /\ \A j \in 1..(n - m + 1) : x[j] = w[m + j - 1]
  BY <1>2, <1>5, <1>6
<1>8. /\ Mapped(D, t) \in Seq(V) /\ Len(Mapped(D, t)) = Len(t)
      /\ \A j \in 1..Len(t) : Mapped(D, t)[j] = D[t[j]]
  BY <1>3, MappedFacts
<1>9. ASSUME NEW j \in 1..Len(t) PROVE Mapped(D, t)[j] = x[j]
  <2>1. PICK i : i = m + j - 1
    OBVIOUS
  <2>2. j \in 1..(n - m + 1) /\ i \in 1..Len(s)
    BY <1>2, <1>3, <2>1
  <2> QED BY <1>3, <1>5, <1>7, <1>8, <2>1, <2>2
<1>10. Mapped(D, t) = x
  BY <1>3, <1>7, <1>8, <1>9, SeqEqual
<1> QED BY <1>1, <1>4, <1>6, <1>10

LEMMA OnFramesTakes ==
    ASSUME NEW R, NEW V, NEW D, Takes(D, R, V)
    PROVE  Takes(OnFrames(D, R), FrameOf(R), FrameOf(V))
<1>1. ASSUME NEW f \in FrameOf(R)
      PROVE  [loc |-> [j \in 1..Locals |-> D[f.loc[j]]], stk |-> Mapped(D, f.stk)] \in FrameOf(V)
  <2>1. f.loc \in [1..Locals -> R] /\ f.stk \in Seq(R)
    BY DEF FrameOf
  <2>2. Mapped(D, f.stk) \in Seq(V)
    BY <2>1, MappedFacts
  <2>3. [j \in 1..Locals |-> D[f.loc[j]]] \in [1..Locals -> V]
    BY <2>1 DEF Takes
  <2> QED BY <2>2, <2>3 DEF FrameOf
<1> QED BY <1>1 DEF Takes, OnFrames

LEMMA MappedEnd ==
    ASSUME NEW R, NEW V, NEW D, Takes(D, R, V), NEW s \in Seq(R), s # <<>>
    PROVE  Last(Mapped(D, s)) = D[Last(s)] /\ Last(s) \in R
<1>1. Len(s) \in Nat /\ Len(s) >= 1 /\ Len(s) \in 1..Len(s)
  OBVIOUS
<1>2. Len(Mapped(D, s)) = Len(s) /\ \A j \in 1..Len(s) : Mapped(D, s)[j] = D[s[j]]
  BY MappedFacts
<1> QED BY <1>1, <1>2 DEF Last

\* Replacing the last entry.
LEMMA MappedLast ==
    ASSUME NEW R, NEW V, NEW D, Takes(D, R, V), NEW s \in Seq(R), s # <<>>, NEW v \in R
    PROVE  Mapped(D, [s EXCEPT ![Len(s)] = v]) = [Mapped(D, s) EXCEPT ![Len(s)] = D[v]]
<1>1. Len(s) \in Nat /\ Len(s) >= 1 /\ Len(s) \in 1..Len(s)
  OBVIOUS
<1>2. PICK w : w = Mapped(D, s)
  OBVIOUS
<1>3. w \in Seq(V) /\ Len(w) = Len(s) /\ DOMAIN w = 1..Len(s)
      /\ \A j \in 1..Len(s) : w[j] = D[s[j]]
  BY <1>2, MappedFacts
<1>4. PICK t : t = [s EXCEPT ![Len(s)] = v]
  OBVIOUS
<1>5. t \in Seq(R) /\ Len(t) = Len(s) /\ t[Len(s)] = v
      /\ \A j \in 1..Len(s) : j # Len(s) => t[j] = s[j]
  BY <1>1, <1>4
<1>6. PICK x : x = [w EXCEPT ![Len(s)] = D[v]]
  OBVIOUS
<1>7. x \in Seq(V) /\ Len(x) = Len(s) /\ x[Len(s)] = D[v]
      /\ \A j \in 1..Len(s) : j # Len(s) => x[j] = w[j]
  <2>1. PICK e \in V : e = D[v]
    BY DEF Takes
  <2>2. x = [w EXCEPT ![Len(w)] = e] /\ Len(w) \in 1..Len(w)
    BY <1>1, <1>3, <1>6, <2>1
  <2>3. /\ x \in Seq(V) /\ Len(x) = Len(w)
        /\ \A j \in 1..Len(w) : x[j] = IF j = Len(w) THEN e ELSE w[j]
    BY <1>3, <2>1, <2>2, ExceptSeq
  <2>4. Len(w) \in 1..Len(w) /\ Len(w) = Len(s)
    BY <1>3, <2>2
  <2> QED BY <2>1, <2>3, <2>4
<1>8. /\ Mapped(D, t) \in Seq(V) /\ Len(Mapped(D, t)) = Len(t)
      /\ \A j \in 1..Len(t) : Mapped(D, t)[j] = D[t[j]]
  BY <1>5, MappedFacts
<1>9. ASSUME NEW j \in 1..Len(t) PROVE Mapped(D, t)[j] = x[j]
  <2>1. CASE j = Len(s)
    BY <1>5, <1>7, <1>8, <2>1
  <2>2. CASE j # Len(s)
    BY <1>3, <1>5, <1>7, <1>8, <2>2
  <2> QED BY <2>1, <2>2
<1>10. Mapped(D, t) = x
  BY <1>5, <1>7, <1>8, <1>9, SeqEqual
<1> QED BY <1>2, <1>4, <1>6, <1>10

\* Replacing the operand stack of the last frame.
TopStack(s, t) == [s EXCEPT ![Len(s)].stk = t]

LEMMA MappedStack ==
    ASSUME NEW R, NEW V, NEW D, Takes(D, R, V), NEW s \in Seq(FrameOf(R)), s # <<>>,
           NEW t \in Seq(R)
    PROVE  Mapped(OnFrames(D, R), TopStack(s, t)) = TopStack(Mapped(OnFrames(D, R), s), Mapped(D, t))
<1>1. PICK E : E = OnFrames(D, R)
  OBVIOUS
<1>2. Takes(E, FrameOf(R), FrameOf(V))
  BY <1>1, OnFramesTakes
<1>3. PICK f : f = s[Len(s)]
  OBVIOUS
<1>4. f \in FrameOf(R) /\ Len(s) \in 1..Len(s) /\ Len(s) \in Nat
  BY <1>3
<1>5. PICK g : g = [f EXCEPT !.stk = t]
  OBVIOUS
<1>6. g \in FrameOf(R) /\ g.loc = f.loc /\ g.stk = t
  BY <1>4, <1>5 DEF FrameOf
<1>7. [s EXCEPT ![Len(s)].stk = t] = [s EXCEPT ![Len(s)] = g]
  BY <1>3, <1>5
<1>8. PICK w : w = Mapped(E, s)
  OBVIOUS
<1>9. w[Len(s)] = E[f] /\ Len(w) = Len(s)
  BY <1>2, <1>3, <1>4, <1>8, MappedFacts
<1>10. E[g] = [E[f] EXCEPT !.stk = Mapped(D, t)]
  <2>1. PICK loc : loc = [j \in 1..Locals |-> D[f.loc[j]]]
    OBVIOUS
  <2>2. PICK old, new : old = Mapped(D, f.stk) /\ new = Mapped(D, t)
    OBVIOUS
  <2>3. E[f] = [loc |-> loc, stk |-> old]
    BY <1>1, <1>4, <2>1, <2>2 DEF OnFrames
  <2>4. E[g] = [loc |-> loc, stk |-> new]
    BY <1>1, <1>6, <2>1, <2>2 DEF OnFrames
  <2> QED BY <2>2, <2>3, <2>4
<1>11. Mapped(E, [s EXCEPT ![Len(s)] = g]) = [w EXCEPT ![Len(s)] = E[g]]
  BY <1>2, <1>6, <1>8, MappedLast
<1>12. [w EXCEPT ![Len(s)].stk = Mapped(D, t)] = [w EXCEPT ![Len(s)] = E[g]]
  BY <1>9, <1>10
<1>13. TopStack(s, t) = [s EXCEPT ![Len(s)] = g]
  BY <1>7 DEF TopStack
<1>14. TopStack(w, Mapped(D, t)) = [w EXCEPT ![Len(s)].stk = Mapped(D, t)]
  BY <1>9 DEF TopStack
<1> QED BY <1>1, <1>8, <1>11, <1>12, <1>13, <1>14

-------------------------------------------------------------------------------
(* The managed heap's view of a state *)

\* D says what the references in S denote.
Reads(D, S) == \A r \in S : D[r] = Denote(r)

ViewLaw ==
    \A R, S, D : (S \subseteq R /\ SlotsIn(S) /\ Takes(D, R, Int) /\ Reads(D, S)) =>
      /\ CallsSeen = Mapped(OnFrames(D, R), frames)
      /\ StaticsSeen = [s \in Statics |-> D[statics[s]]]

LEMMA ViewMapped == ViewLaw
<1> SUFFICES ASSUME NEW R, NEW S, NEW D,
                    S \subseteq R, SlotsIn(S), Takes(D, R, Int), Reads(D, S)
             PROVE  /\ CallsSeen = Mapped(OnFrames(D, R), frames)
                    /\ StaticsSeen = [s \in Statics |-> D[statics[s]]]
  BY DEF ViewLaw
<1>1. ASSUME NEW i \in DOMAIN frames
      PROVE  [loc |-> [j \in 1..Locals |-> Denote(frames[i].loc[j])],
              stk |-> [j \in DOMAIN frames[i].stk |-> Denote(frames[i].stk[j])]]
               = OnFrames(D, R)[frames[i]]
  <2>1. PICK f : f = frames[i]
    OBVIOUS
  <2>2. /\ \A j \in 1..Locals : f.loc[j] \in S
        /\ \A j \in DOMAIN f.stk : f.stk[j] \in S
    BY <2>1, FrameFacts DEF SlotsIn
  <2>3. f \in FrameOf(R)
    <3>1. f \in FrameOf(S)
      BY <2>1 DEF SlotsIn
    <3>2. f.loc \in [1..Locals -> R] /\ f.stk \in Seq(R)
      BY <2>2, <3>1 DEF FrameOf
    <3> QED BY <3>1, <3>2 DEF FrameOf
  <2>4. [j \in 1..Locals |-> Denote(f.loc[j])] = [j \in 1..Locals |-> D[f.loc[j]]]
    BY <2>2 DEF Reads
  <2>5. [j \in DOMAIN f.stk |-> Denote(f.stk[j])] = Mapped(D, f.stk)
    BY <2>2 DEF Reads, Mapped
  <2> QED BY <2>1, <2>3, <2>4, <2>5 DEF OnFrames
<1>2. CallsSeen = Mapped(OnFrames(D, R), frames)
  BY <1>1 DEF CallsSeen, Mapped
<1>3. \A s \in Statics : Denote(statics[s]) = D[statics[s]]
  BY DEF SlotsIn, Reads
<1> QED BY <1>2, <1>3 DEF StaticsSeen

LEMMA ViewMappedPrime == ViewLaw'
BY ViewMapped, PTL

\* What the slots name.
LEMMA NamedMeans ==
    \A n : n \in Managed!Named(CallsSeen, StaticsSeen) <=>
      \/ \E i \in DOMAIN frames :
           \/ \E j \in 1..Locals : n = Denote(frames[i].loc[j])
           \/ \E j \in DOMAIN frames[i].stk : n = Denote(frames[i].stk[j])
      \/ \E s \in Statics : n = Denote(statics[s])
<1>1. DOMAIN CallsSeen = DOMAIN frames
  BY DEF CallsSeen
<1>2. ASSUME NEW i \in DOMAIN frames, NEW n
      PROVE  /\ n \in ToSet(CallsSeen[i].loc) <=>
                  \E j \in 1..Locals : n = Denote(frames[i].loc[j])
             /\ n \in ToSet(CallsSeen[i].stk) <=>
                  \E j \in DOMAIN frames[i].stk : n = Denote(frames[i].stk[j])
  <2>1. PICK loc, stk : /\ loc = [j \in 1..Locals |-> Denote(frames[i].loc[j])]
                        /\ stk = [j \in DOMAIN frames[i].stk |-> Denote(frames[i].stk[j])]
    OBVIOUS
  <2>2. CallsSeen[i].loc = loc /\ CallsSeen[i].stk = stk
    BY <2>1 DEF CallsSeen
  <2>3. /\ n \in ToSet(loc) <=> \E j \in 1..Locals : n = Denote(frames[i].loc[j])
        /\ n \in ToSet(stk) <=> \E j \in DOMAIN frames[i].stk : n = Denote(frames[i].stk[j])
    BY <2>1 DEF ToSet
  <2> QED BY <2>2, <2>3
<1>3. ASSUME NEW n
      PROVE  n \in Managed!Named(CallsSeen, StaticsSeen) <=>
               \/ \E i \in DOMAIN CallsSeen :
                    n \in ToSet(CallsSeen[i].loc) \/ n \in ToSet(CallsSeen[i].stk)
               \/ \E s \in Statics : n = StaticsSeen[s]
  <2>1. \A f : Managed!ToSet(f) = ToSet(f)
    BY DEF Managed!ToSet, ToSet
  <2> QED BY <2>1 DEF Managed!Named
<1>4. \A s \in Statics : StaticsSeen[s] = Denote(statics[s])
  BY DEF StaticsSeen
<1> SUFFICES ASSUME NEW n
             PROVE  n \in Managed!Named(CallsSeen, StaticsSeen) <=>
               \/ \E i \in DOMAIN frames :
                    \/ \E j \in 1..Locals : n = Denote(frames[i].loc[j])
                    \/ \E j \in DOMAIN frames[i].stk : n = Denote(frames[i].stk[j])
               \/ \E s \in Statics : n = Denote(statics[s])
  OBVIOUS
<1>5. (\E i \in DOMAIN CallsSeen :
          n \in ToSet(CallsSeen[i].loc) \/ n \in ToSet(CallsSeen[i].stk)) <=>
      (\E i \in DOMAIN frames :
                    \/ \E j \in 1..Locals : n = Denote(frames[i].loc[j])
                    \/ \E j \in DOMAIN frames[i].stk : n = Denote(frames[i].stk[j]))
  <2>1. PICK c : c = CallsSeen
    OBVIOUS
  <2>2. /\ DOMAIN c = DOMAIN frames
        /\ \A i \in DOMAIN frames :
            /\ n \in ToSet(c[i].loc) <=> \E j \in 1..Locals : n = Denote(frames[i].loc[j])
            /\ n \in ToSet(c[i].stk) <=>
                 \E j \in DOMAIN frames[i].stk : n = Denote(frames[i].stk[j])
    BY <1>1, <1>2, <2>1
  <2> QED BY <2>1, <2>2
<1> QED BY <1>3, <1>4, <1>5

\* Slots and fields stay in A, and the identities of A are its objects' own.
Complete(A) ==
    /\ SlotsIn(A \cup {Null})
    /\ \A a \in A :
         /\ IsObject(a) /\ mem[a].cls \in Classes /\ mem[a].id \in Nat \ {0}
         /\ \A k \in FieldIds : mem[a].fields[k] \in A \cup {Null}
    /\ \A a, b \in A : mem[a].id = mem[b].id => a = b

LEMMA DenotesOwn ==
    ASSUME NEW A, Complete(A), NEW v \in A \cup {Null}, NEW a \in A
    PROVE  Denote(v) = mem[a].id <=> v = a
<1>1. a # Null /\ IsObject(a) /\ mem[a].id # Null
  BY RegionFacts DEF Complete, IsObject, Null
<1>2. CASE v = Null
  BY <1>1, <1>2 DEF Denote
<1>3. CASE v # Null
  <2>1. v \in A /\ IsObject(v)
    BY <1>3 DEF Complete
  <2>2. Denote(v) = mem[v].id
    BY <1>3, <2>1 DEF Denote
  <2> QED BY <2>1, <2>2 DEF Complete
<1> QED BY <1>2, <1>3

\* The slots name an object of A by its identity exactly if they refer to it.
LEMMA NamedSlots ==
    ASSUME NEW A, Complete(A), NEW a \in A
    PROVE  mem[a].id \in Managed!Named(CallsSeen, StaticsSeen) <=> a \in Slots
<1>1. a # Null
  BY RegionFacts DEF Complete, IsObject, Null
<1>2. /\ \A i \in DOMAIN frames :
           /\ \A j \in 1..Locals : frames[i].loc[j] \in A \cup {Null}
           /\ \A j \in DOMAIN frames[i].stk : frames[i].stk[j] \in A \cup {Null}
      /\ \A s \in Statics : statics[s] \in A \cup {Null}
  <2>1. PICK R : R = A \cup {Null}
    OBVIOUS
  <2>2. frames \in Seq(FrameOf(R)) /\ statics \in [Statics -> R]
    BY <2>1 DEF Complete, SlotsIn
  <2> QED BY <2>1, <2>2, FrameFacts
<1>3. mem[a].id \in Managed!Named(CallsSeen, StaticsSeen) <=>
        \/ \E i \in DOMAIN frames :
             \/ \E j \in 1..Locals : a = frames[i].loc[j]
             \/ \E j \in DOMAIN frames[i].stk : a = frames[i].stk[j]
        \/ \E s \in Statics : a = statics[s]
  BY <1>2, DenotesOwn, NamedMeans
<1> QED BY <1>1, <1>3 DEF Slots, Roots, OperandRefs, StaticRefs, ToSet

\* A field of one object names another exactly if it refers to it.
LEMMA NamedFields ==
    ASSUME NEW A, Complete(A), NEW a \in A, NEW b \in A
    PROVE  /\ Seen(b).id = mem[b].id /\ Seen(a).cls = mem[a].cls
           /\ b \in Children(a) <=>
                \E k \in Pointers[Seen(a).cls] : Seen(a).fields[k] = Seen(b).id
<1>1. /\ mem[a].cls \in Classes /\ Pointers[mem[a].cls] \subseteq FieldIds
      /\ b # Null /\ \A k \in FieldIds : mem[a].fields[k] \in A \cup {Null}
  BY RegionFacts, HeapAssumption DEF Complete, IsObject, Null
<1>2. ASSUME NEW k \in Pointers[mem[a].cls]
      PROVE  Seen(a).fields[k] = mem[b].id <=> mem[a].fields[k] = b
  <2>1. Seen(a).fields[k] = Denote(mem[a].fields[k])
    BY <1>1 DEF Seen
  <2> QED BY <1>1, <2>1, DenotesOwn
<1>3. Seen(b).id = mem[b].id /\ Seen(a).cls = mem[a].cls
  BY DEF Seen
<1> QED BY <1>1, <1>2, <1>3 DEF Children

\* Of a complete set, what the program sees is what the managed heap calls reachable.
ReachLaw ==
    \A A : Complete(A) =>
      GraphSeen = Managed!Reachable(Managed!Named(CallsSeen, StaticsSeen), {Seen(a) : a \in A})

LEMMA SeenReachable == ReachLaw
<1> SUFFICES ASSUME NEW A, Complete(A)
             PROVE  GraphSeen = Managed!Reachable(Managed!Named(CallsSeen, StaticsSeen),
                                                  {Seen(a) : a \in A})
  BY DEF ReachLaw
<1>1. PICK ids : ids = Managed!Named(CallsSeen, StaticsSeen)
  OBVIOUS
<1> DEFINE Objs == {Seen(a) : a \in A}
           Unnamed(U) == \A u \in U :
                           /\ u.id \notin ids
                           /\ \A o \in Objs \ U : \A k \in Pointers[o.cls] : o.fields[k] # u.id
<1>2. \A o : o \in Managed!Reachable(ids, Objs) <=>
               o \in Objs /\ \A U \in SUBSET Objs : Unnamed(U) => o \notin U
  BY DEF Managed!Reachable
<1>3. \A a \in A : Seen(a).id \in ids <=> a \in Slots
  BY <1>1, NamedSlots, NamedFields
<1>4. \A a, b \in A : b \in Children(a) <=>
                        \E k \in Pointers[Seen(a).cls] : Seen(a).fields[k] = Seen(b).id
  BY NamedFields
<1>5. /\ Slots \subseteq A
      /\ \A a \in A : IsObject(a) /\ Children(a) \subseteq A
  <2>1. Slots \subseteq A
    BY SlotsBack DEF Complete, SlotsWithin
  <2>2. \A a \in A : Pointers[mem[a].cls] \subseteq FieldIds
    BY HeapAssumption DEF Complete
  <2> QED BY <2>1, <2>2 DEF Complete, Children
<1>6. GraphSeen = {Seen(a) : a \in Graph}
  BY DEF GraphSeen, Seen, Graph
<1>7. Graph \subseteq A
  BY <1>5, GraphLaws DEF GraphLaw
<1>8. ASSUME NEW a \in Graph PROVE Seen(a) \in Managed!Reachable(ids, Objs)
  <2> SUFFICES ASSUME NEW U \in SUBSET Objs, Unnamed(U), Seen(a) \in U PROVE FALSE
    BY <1>2, <1>7
  <2>1. PICK C : C = {c \in A : Seen(c) \notin U}
    OBVIOUS
  <2>2. \A c \in Slots : c \in C
    BY <1>3, <1>5, <2>1
  <2>3. ASSUME NEW c \in C, NEW d \in Children(c) PROVE d \in C
    <3>1. c \in A /\ d \in A /\ Seen(c) \in Objs \ U
      BY <1>5, <2>1, <2>3
    <3>2. \E k \in Pointers[Seen(c).cls] : Seen(c).fields[k] = Seen(d).id
      BY <1>4, <2>3, <3>1
    <3> QED BY <2>1, <3>1, <3>2
  <2>4. Graph \subseteq C
    BY <2>2, <2>3, GraphLaws DEF GraphLaw
  <2> QED BY <2>1, <2>4
<1>9. ASSUME NEW a \in A, Seen(a) \in Managed!Reachable(ids, Objs) PROVE a \in Graph
  <2>1. PICK U : U = {Seen(b) : b \in A \ Graph}
    OBVIOUS
  <2>2. ASSUME NEW b \in A, b \notin Graph PROVE Seen(b).id \notin ids
    BY <1>3, <1>5, <2>2, GraphLaws DEF GraphLaw
  <2>3. ASSUME NEW b \in A, b \notin Graph, NEW c \in A, Seen(c) \notin U,
               NEW k \in Pointers[Seen(c).cls]
        PROVE  Seen(c).fields[k] # Seen(b).id
    <3>1. c \in Graph
      BY <2>1, <2>3
    <3>2. b \notin Children(c)
      BY <1>5, <2>3, <3>1, GraphLaws DEF GraphLaw
    <3> QED BY <1>4, <2>3, <3>2
  <2>4. U \in SUBSET Objs /\ Unnamed(U)
    BY <2>1, <2>2, <2>3
  <2> QED BY <1>2, <1>9, <2>1, <2>4
<1> HIDE DEF Objs
<1>10. GraphSeen = Managed!Reachable(ids, Objs)
  BY <1>2, <1>6, <1>8, <1>9 DEF Objs
<1> QED BY <1>1, <1>10 DEF Objs

LEMMA SeenReachablePrime == ReachLaw'
BY SeenReachable, PTL

-------------------------------------------------------------------------------
(* Identities *)

IdsFresh == \A a \in Addr : IsObject(a) => mem[a].id \in 1..(next - 1)

\* No two objects of the graph have one identity: a copy takes the place of its original.
IdsApart ==
    Kept /\ pc \notin Dead => \A a, b \in Graph : mem[a].id = mem[b].id => a = b

RefinementInv == GraphInv /\ IdsFresh /\ IdsApart

\* No step but NEW makes an identity.
SameIds ==
    \A a \in Addr : IsObject(a)' =>
      \E b \in Addr : IsObject(b) /\ mem'[a].id = mem[b].id

LEMMA StepIds ==
    ASSUME GraphInv, Next
    PROVE  \/ AllocOk
           \/ next' = next /\ SameIds
<1>1. IInv /\ TypeOK
  BY DEF GraphInv, EdenInv, IInv
<1>2. Survived => SameIds
  BY DEF Survived, SameIds
<1>3. Refielded => SameIds
  BY DEF Refielded, SameIds
<1>4. CASE Bytecode
  BY <1>1, <1>3, <1>4, BytecodeMem
<1>5. CASE AllocFull \/ Retry \/ GiveUp
  <2>1. mem' = mem /\ next' = next
    BY <1>5 DEF AllocFull, Retry, GiveUp, heapVars, mutVars
  <2> QED BY <1>2, <2>1 DEF Survived, IsObject
<1>6. CASE SweepPromote /\ UNCHANGED mutVars
  <2>1. PICK from \in Young, to \in Old :
          /\ IsObject(from) /\ mem'[to] = mem[from]
          /\ \A a \in Addr : a # to => mem'[a] = mem[a]
    BY <1>6, PromoteFacts
  <2> QED BY <1>6, <2>1 DEF SameIds, IsObject, mutVars, Addr
<1>7. CASE FixObjects /\ UNCHANGED mutVars
  BY <1>1, <1>3, <1>7, FixObjectsMem DEF mutVars
<1>8. CASE Collect /\ ~SweepPromote /\ ~FixObjects
  BY <1>1, <1>2, <1>8, CollectSurvived DEF Collect, mutVars
<1> QED BY <1>4, <1>5, <1>6, <1>7, <1>8 DEF Next, AllocStep, Collect

LEMMA StepIdsFresh ==
    ASSUME GraphInv, IdsFresh, Next
    PROVE  IdsFresh'
<1>1. next \in Nat \ {0}
  BY DEF GraphInv, EdenInv, IInv, TypeOK
<1>2. CASE AllocOk
  <2>1. next' = next + 1
    BY <1>2 DEF AllocOk
  <2>2. PICK to : to = top
    OBVIOUS
  <2>3. mem'[to].id = next /\ \A a \in Addr : a # to => mem'[a] = mem[a]
    BY <1>2, <2>2, AllocMem DEF GraphInv, EdenInv, Fresh
  <2>4. ASSUME NEW a \in Addr, IsObject(a)' PROVE mem'[a].id \in 1..next
    BY <1>1, <2>3, <2>4 DEF IdsFresh, IsObject
  <2> QED BY <1>1, <2>1, <2>4 DEF IdsFresh
<1>3. CASE next' = next /\ SameIds
  BY <1>3 DEF IdsFresh, SameIds
<1> QED BY <1>2, <1>3, StepIds

LEMMA StepIdsApart ==
    ASSUME GraphInv, IdsFresh, IdsApart, Next
    PROVE  IdsApart'
<1>1. IInv /\ TypeOK
  BY DEF GraphInv, EdenInv, IInv
<1> SUFFICES ASSUME Kept', pc' \notin Dead, NEW a \in Graph', NEW b \in Graph',
                    mem'[a].id = mem'[b].id
             PROVE  a = b
  BY DEF IdsApart
<1>2. Kept
  BY <1>1, RisksStay
<1>3. pc \notin Dead
  BY Steps DEF Dead
<1>4. \A c, d \in Graph : mem[c].id = mem[d].id => c = d
  BY <1>2, <1>3 DEF IdsApart
<1>5. Closed
  BY <1>2, <1>3 DEF GraphInv, Sound
<1>6. \A c \in Graph : c \in Addr /\ IsObject(c)
  BY GraphLaws DEF GraphLaw
<1>7. ASSUME Graph' \subseteq Graph, \A c \in Graph : mem'[c].id = mem[c].id
      PROVE  a = b
  BY <1>4, <1>7
<1>8. CASE Bytecode
  <2>1. Graph' \subseteq Graph /\ Refielded
    BY <1>1, <1>5, <1>8, BytecodeGraph, BytecodeMem
  <2> QED BY <1>6, <1>7, <2>1 DEF Refielded
<1>9. CASE AllocOk
  <2>1. PICK to : to = top
    OBVIOUS
  <2>2. mem'[to].id = next /\ \A c \in Addr : c # to => mem'[c] = mem[c]
    BY <1>1, <1>9, <2>1, AllocMem DEF Fresh
  <2>3. Graph' \subseteq Graph \cup {to}
    BY <1>1, <1>5, <1>9, <2>1, AllocGraph
  <2>4. \A c \in Graph : mem[c].id # next
    <3>1. next \in Nat
      BY <1>1 DEF TypeOK
    <3> QED BY <1>6, <3>1 DEF IdsFresh
  <2>5. \A c \in Graph : c # to => mem'[c].id = mem[c].id
    BY <1>6, <2>2
  <2> QED BY <1>4, <2>2, <2>3, <2>4, <2>5
<1>10. CASE AllocFull \/ Retry \/ GiveUp
  <2>1. UNCHANGED <<mem, statics>> /\ (UNCHANGED frames \/ frames' = <<>>)
    BY <1>10 DEF AllocFull, Retry, GiveUp, Unwind, heapVars
  <2>2. Graph' \subseteq Graph
    BY <1>5, <2>1, RestGraph
  <2> QED BY <1>7, <2>1, <2>2
<1>11. CASE FixRoots /\ Collect
  <2>1. /\ Graph' = {Forward(c) : c \in Graph}
        /\ \A c \in Graph : mem[Forward(c)].id = mem[c].id
    BY <1>2, <1>11, FixRootsGraph
  <2>2. mem' = mem
    BY <1>11 DEF FixRoots
  <2>3. PICK c \in Graph, d \in Graph : a = Forward(c) /\ b = Forward(d)
    BY <2>1
  <2>4. mem[c].id = mem[d].id
    BY <2>1, <2>2, <2>3
  <2> QED BY <1>4, <2>3, <2>4
<1>12. CASE Collect /\ ~FixRoots
  BY <1>7, <1>12, CollectGraph DEF Collect
<1> QED BY <1>8, <1>9, <1>10, <1>11, <1>12 DEF Next, AllocStep

LEMMA InitRefinementInv == ASSUME Init PROVE RefinementInv
<1>1. GraphInv
  BY InitGraphInv
<1>2. \A a \in Addr : ~IsObject(a)
  BY DEF Init, HeapInit, IsObject
<1> QED BY <1>1, <1>2, GraphLaws DEF RefinementInv, IdsFresh, IdsApart, GraphLaw

LEMMA StepRefinementInv ==
    ASSUME RefinementInv, [Next]_vars
    PROVE  RefinementInv'
<1>1. GraphInv'
  BY StepGraphInv DEF RefinementInv
<1>2. CASE Next
  BY <1>1, <1>2, StepIdsFresh, StepIdsApart DEF RefinementInv
<1>3. CASE UNCHANGED vars
  <2>1. UNCHANGED <<mem, frames, statics, next, pc, risk>>
    BY <1>3 DEF vars, heapVars, gcVars, mutVars
  <2>2. Graph' = Graph
    BY <2>1 DEF Graph, ReachFrom, Slots, Roots, OperandRefs, StaticRefs, IsObject, Children
  <2> QED BY <1>1, <2>1, <2>2 DEF RefinementInv, IdsFresh, IdsApart, Kept, IsObject
<1> QED BY <1>2, <1>3

\* The graph is complete while the promise stands.
LEMMA GraphComplete ==
    ASSUME RefinementInv, Kept, pc \notin Dead, NEW A, A = Graph
    PROVE  /\ TypeOK /\ IInv /\ Closed /\ PlainNull
           /\ Complete(A)
           /\ GraphSeen = {Seen(a) : a \in A}
<1>1. TypeOK /\ IInv /\ Closed /\ PlainNull
  BY DEF RefinementInv, GraphInv, EdenInv, IInv, Sound
<1>2. SlotsIn(A \cup {Null})
  BY <1>1, SlotsMeans DEF Closed
<1>3. \A a \in A : /\ a \in Addr /\ IsObject(a)
                   /\ \A k \in FieldIds : mem[a].fields[k] \in A \cup {Null}
  BY <1>1, SeenValues, GraphLaws DEF GraphLaw
<1>4. ASSUME NEW a \in A PROVE mem[a].cls \in Classes /\ mem[a].id \in Nat \ {0}
  BY <1>1, <1>3, ObjectFacts DEF RefinementInv, IdsFresh, TypeOK
<1>5. GraphSeen = {Seen(a) : a \in A}
  BY DEF GraphSeen, Seen, Graph
<1> QED BY <1>1, <1>2, <1>3, <1>4, <1>5 DEF Complete, RefinementInv, IdsApart

\* No bytecode leads out of a complete set.
LEMMA BytecodeComplete ==
    ASSUME TypeOK, NEW A, A = Graph, Closed, Complete(A), Bytecode
    PROVE  Complete(A)'
<1>1. SlotsIn(A \cup {Null})'
  <2>1. PICK R : R = A \cup {Null}
    OBVIOUS
  <2>2. SlotsIn(R) /\ Null \in R
    BY <2>1 DEF Complete
  <2>3. \A a \in R : IsObject(a) => \A k \in Pointers[mem[a].cls] : mem[a].fields[k] \in R
    BY <2>1, RegionFacts, HeapAssumption DEF Complete, IsObject, Null
  <2> QED BY <2>1, <2>2, <2>3, BytecodeSlots
<1>2. \A a \in A : a \in Addr /\ IsObject(a)
  BY DEF Complete, IsObject
<1>3. CASE UNCHANGED mem
  BY <1>1, <1>3 DEF Complete, IsObject
<1>4. ASSUME NEW obj, NEW value, NEW k \in FieldIds, Stores(obj, k, value)
      PROVE  Complete(A)'
  <2>1. obj \in A /\ value \in A \cup {Null}
    BY <1>4, StoredFacts
  <2>2. /\ mem'[obj].cls = mem[obj].cls /\ mem'[obj].id = mem[obj].id
        /\ mem'[obj].fields = [mem[obj].fields EXCEPT ![k] = value]
        /\ obj \in Addr /\ mem'[obj] # NoObject
    BY <1>4, StoresFacts
  <2>3. \A a \in A : a # obj => mem'[a] = mem[a]
    BY <1>2, <1>4, StoresElsewhere
  <2>4. mem[obj].fields \in [FieldIds -> Ref]
    BY <1>2, <2>1, ObjectFacts
  <2>5. \A i \in FieldIds : mem'[obj].fields[i] \in A \cup {Null}
    BY <2>1, <2>2, <2>4 DEF Complete
  <2>6. \A a \in A : IsObject(a)' /\ mem'[a].cls = mem[a].cls /\ mem'[a].id = mem[a].id
    BY <1>2, <2>2, <2>3 DEF IsObject
  <2>7. \A a \in A : \A i \in FieldIds : mem'[a].fields[i] \in A \cup {Null}
    BY <2>3, <2>5 DEF Complete
  <2> QED BY <1>1, <2>6, <2>7 DEF Complete
<1> QED BY <1>3, <1>4, BytecodeQuiet

-------------------------------------------------------------------------------
(* A bytecode through the eyes of the managed heap *)

\* D names the values in R before and after the step, and the slots hold only such.
Names(D, R) ==
    /\ Takes(D, R, Int) /\ Null \in R /\ D[Null] = Null
    /\ SlotsIn(R) /\ SlotsIn(R)'
    /\ CallsSeen = Mapped(OnFrames(D, R), frames)
    /\ CallsSeen' = Mapped(OnFrames(D, R), frames')
    /\ StaticsSeen = [s \in Statics |-> D[statics[s]]]
    /\ StaticsSeen' = [s \in Statics |-> D[statics'[s]]]

LEMMA BytecodeNames ==
    ASSUME RefinementInv, Kept, Bytecode, NEW A, A = Graph
    PROVE  /\ Kept' /\ next' = next /\ (Executing \/ frames = <<>>)
           /\ Complete(A) /\ GraphSeen = {Seen(a) : a \in A}
           /\ GraphSeen' = Managed!Reachable(Managed!Named(CallsSeen', StaticsSeen'),
                                             {Seen(a)' : a \in A})
           /\ \E D : Names(D, A \cup {Null}) /\ \A r \in A \cup {Null} : D[r] = Denote(r)
<1>1. pc = "run"
  BY BytecodeQuiet
<1>2. /\ TypeOK /\ IInv /\ Closed /\ Complete(A)
      /\ GraphSeen = {Seen(a) : a \in A}
  BY <1>1, GraphComplete DEF Dead
<1>3. risk' = risk /\ next' = next /\ Refielded
  BY <1>2, BytecodeMem
<1>4. Complete(A)'
  BY <1>2, BytecodeComplete
<1>5. GraphSeen' = Managed!Reachable(Managed!Named(CallsSeen', StaticsSeen'), {Seen(a)' : a \in A})
  BY <1>4, SeenReachablePrime DEF ReachLaw
<1>6. PICK R : R = A \cup {Null}
  OBVIOUS
<1>7. PICK D : D = [r \in R |-> Denote(r)]
  OBVIOUS
<1>8. SlotsIn(R) /\ SlotsIn(R)'
  BY <1>2, <1>4, <1>6 DEF Complete
<1>9. \A a \in A : IsObject(a) /\ a \in Addr /\ mem[a].id \in Nat
  BY <1>2 DEF Complete, IsObject
<1>10. \A r \in R : Denote(r)' = Denote(r) /\ Denote(r) \in Int
  BY <1>3, <1>6, <1>9 DEF Denote, Refielded, Null
<1>11. Takes(D, R, Int)
  BY <1>7, <1>10 DEF Takes
<1>12. Reads(D, R) /\ Reads(D, R)'
  BY <1>7, <1>10 DEF Reads
<1>13. /\ CallsSeen = Mapped(OnFrames(D, R), frames)
       /\ StaticsSeen = [s \in Statics |-> D[statics[s]]]
  BY <1>8, <1>11, <1>12, ViewMapped DEF ViewLaw
<1>14. /\ CallsSeen' = Mapped(OnFrames(D, R), frames')
       /\ StaticsSeen' = [s \in Statics |-> D[statics'[s]]]
  <2>1. R \subseteq R /\ SlotsIn(R)' /\ Takes(D, R, Int)' /\ Reads(D, R)'
    BY <1>8, <1>11, <1>12
  <2> QED BY <2>1, ViewMappedPrime DEF ViewLaw
<1>15. Null \in R /\ D[Null] = Null
  BY <1>6, <1>7 DEF Denote
<1>16. Names(D, R)
  BY <1>8, <1>11, <1>13, <1>14, <1>15 DEF Names
<1>17. Executing \/ frames = <<>>
  BY <1>1 DEF Executing
<1>18. Kept'
  BY <1>3 DEF Kept
<1> QED BY <1>2, <1>3, <1>5, <1>6, <1>7, <1>16, <1>17, <1>18

\* The topmost frame as the managed heap has it.
LEMMA TopFrame ==
    ASSUME Kept, NEW R, NEW D, Names(D, R), frames # <<>>
    PROVE  /\ Managed!Running /\ Len(Stack) \in Nat
           /\ Managed!Frame.loc = [j \in 1..Locals |-> D[Current.loc[j]]]
           /\ Managed!Frame.stk = Mapped(D, Stack) /\ Len(Managed!Frame.stk) = Len(Stack)
           /\ Stack # <<>> => Managed!Top = D[Last(Stack)] /\ Last(Stack) \in R
           /\ Stack \in Seq(R)
           /\ \A t \in Seq(R) :
                Managed!WithStack(Mapped(D, t)) = Mapped(OnFrames(D, R), WithStack(t))
<1>1. PICK E : E = OnFrames(D, R)
  OBVIOUS
<1>2. Takes(D, R, Int) /\ Takes(E, FrameOf(R), FrameOf(Int)) /\ frames \in Seq(FrameOf(R))
  BY <1>1, OnFramesTakes DEF Names, SlotsIn
<1>3. PICK c : c = CallsSeen
  OBVIOUS
<1>4. c = Mapped(E, frames)
  BY <1>1, <1>3 DEF Names
<1>5. /\ Len(c) = Len(frames) /\ c # <<>> /\ Last(c) = E[Last(frames)]
      /\ Last(frames) \in FrameOf(R)
  BY <1>2, <1>4, MappedFacts, MappedEnd
<1>6. Current = Last(frames)
  BY DEF Current, Last
<1>7. PICK f \in FrameOf(R) : f = Current
  BY <1>5, <1>6
<1>8. E[f].loc = [j \in 1..Locals |-> D[f.loc[j]]] /\ E[f].stk = Mapped(D, f.stk)
  BY <1>1 DEF OnFrames
<1>9. Managed!Frame = E[f]
  BY <1>3, <1>5, <1>6, <1>7 DEF Managed!Frame, Managed!Last, Last
<1>10. f.stk \in Seq(R) /\ f.stk = Stack
  BY <1>7 DEF FrameOf, Stack
<1>11. /\ Managed!Frame.loc = [j \in 1..Locals |-> D[Current.loc[j]]]
       /\ Managed!Frame.stk = Mapped(D, Stack)
  BY <1>7, <1>8, <1>9, <1>10
<1>12. Len(Managed!Frame.stk) = Len(Stack) /\ Stack \in Seq(R) /\ Len(Stack) \in Nat
  BY <1>2, <1>10, <1>11, MappedFacts
<1>13. Stack # <<>> => Managed!Top = D[Last(Stack)] /\ Last(Stack) \in R
  <2>1. PICK k : k = Managed!Frame.stk
    OBVIOUS
  <2>2. Managed!Top = Last(k)
    BY <2>1 DEF Managed!Top, Managed!Last, Last
  <2>3. PICK s : s = Stack
    OBVIOUS
  <2>4. s \in Seq(R)
    BY <1>12, <2>3
  <2>5. s # <<>> => Last(Mapped(D, s)) = D[Last(s)] /\ Last(s) \in R
    BY <1>2, <2>4, MappedEnd
  <2> QED BY <1>11, <2>1, <2>2, <2>3, <2>5
<1>14. ASSUME NEW t \in Seq(R)
       PROVE  Managed!WithStack(Mapped(D, t)) = Mapped(E, WithStack(t))
  <2>1. \A k : Managed!WithStack(k) = TopStack(c, k)
    BY <1>3 DEF Managed!WithStack, TopStack
  <2>2. Mapped(E, TopStack(frames, t)) = TopStack(c, Mapped(D, t))
    BY <1>1, <1>2, <1>4, MappedStack
  <2>3. WithStack(t) = TopStack(frames, t)
    BY DEF WithStack, TopStack
  <2> QED BY <2>1, <2>2, <2>3
<1>15. Managed!Running
  BY <1>3, <1>5 DEF Managed!Running
<1> QED BY <1>1, <1>11, <1>12, <1>13, <1>14, <1>15

\* What is left of the objects objs after the step.
Collected(objs) ==
    GraphSeen' = Managed!Reachable(Managed!Named(CallsSeen', StaticsSeen'), objs)

LEMMA BecomeMeans ==
    ASSUME Kept, Kept', NEW c, NEW s, NEW objs, CallsSeen' = c, StaticsSeen' = s, Collected(objs)
    PROVE  Managed!Become(c, s, objs)
BY DEF Managed!Become, Collected, Kept

\* A bytecode that names values by D and stores into no object.
Plain(D, R) ==
    /\ Kept /\ Kept' /\ next' = next
    /\ Names(D, R)
    /\ Collected(GraphSeen)

\* The stack without its topmost n values.
LEMMA UnderFrame ==
    ASSUME Kept, NEW R, NEW D, Names(D, R), frames # <<>>, NEW n \in 0..Len(Stack)
    PROVE  /\ Managed!Depth(n)
           /\ Drop(n) \in Seq(R) /\ Managed!Under(n) = Mapped(D, Drop(n))
           /\ Managed!WithStack(Managed!Under(n)) = Mapped(OnFrames(D, R), WithStack(Drop(n)))
<1>1. PICK s, k : s = Stack /\ k = Managed!Frame.stk
  OBVIOUS
<1>2. s \in Seq(R) /\ Len(s) \in Nat /\ k = Mapped(D, s) /\ Len(k) = Len(s) /\ Managed!Running
  BY <1>1, TopFrame
<1>3. n \in Nat /\ n <= Len(s) /\ 1 \in 1..(Len(s) + 1) /\ Len(s) - n \in (1 - 1)..Len(s)
  BY <1>1, <1>2
<1>4. Takes(D, R, Int)
  BY DEF Names
<1>5. SubSeq(Mapped(D, s), 1, Len(s) - n) = Mapped(D, SubSeq(s, 1, Len(s) - n))
  BY <1>2, <1>3, <1>4, MappedSub
<1>6. Drop(n) = SubSeq(s, 1, Len(s) - n)
  BY <1>1 DEF Drop
<1>7. Drop(n) \in Seq(R)
  BY <1>2, <1>3, <1>6
<1>8. Managed!Under(n) = SubSeq(k, 1, Len(k) - n)
  BY <1>1 DEF Managed!Under
<1>9. Managed!Under(n) = Mapped(D, Drop(n))
  BY <1>2, <1>5, <1>6, <1>8
<1>10. Managed!Depth(n)
  BY <1>1, <1>2, <1>3 DEF Managed!Depth
<1> QED BY <1>7, <1>9, <1>10, TopFrame

LEMMA PushManaged ==
    ASSUME NEW R, NEW D, Plain(D, R), frames # <<>>, NEW v \in R, D[v] \in Managed!Pushable,
           frames' = WithStack(Append(Stack, v)), statics' = statics
    PROVE  Managed!Push
<1>1. PICK s : s = Stack
  OBVIOUS
<1>2. s \in Seq(R) /\ Managed!Running /\ Managed!Frame.stk = Mapped(D, s)
      /\ \A t \in Seq(R) : Managed!WithStack(Mapped(D, t)) = Mapped(OnFrames(D, R), WithStack(t))
  BY <1>1, TopFrame DEF Plain
<1>3. Append(s, v) \in Seq(R)
  BY <1>2
<1>4. Mapped(D, Append(s, v)) = Append(Managed!Frame.stk, D[v])
  BY <1>2, MappedAppend DEF Plain, Names
<1>5. CallsSeen' = Managed!WithStack(Append(Managed!Frame.stk, D[v]))
  BY <1>1, <1>2, <1>3, <1>4 DEF Plain, Names
<1>6. StaticsSeen' = StaticsSeen
  BY DEF Plain, Names
<1>7. Managed!Become(Managed!WithStack(Append(Managed!Frame.stk, D[v])), StaticsSeen, GraphSeen)
  BY <1>5, <1>6, BecomeMeans DEF Plain
<1> QED BY <1>2, <1>7 DEF Managed!Push, Plain

LEMMA PopManaged ==
    ASSUME NEW R, NEW D, Plain(D, R), Pop
    PROVE  Managed!Pop
<1>1. frames # <<>> /\ 1 \in 0..Len(Stack)
  <2>1. frames # <<>> /\ Stack # <<>>
    BY DEF Pop, Executing
  <2>2. Stack \in Seq(R)
    BY <2>1, TopFrame DEF Plain
  <2> QED BY <2>1, <2>2
<1>2. CallsSeen' = Managed!WithStack(Managed!Under(1)) /\ Managed!Depth(1)
  BY <1>1, UnderFrame DEF Pop, Plain, Names
<1>3. StaticsSeen' = StaticsSeen
  BY DEF Pop, Plain, Names
<1>4. Managed!Become(Managed!WithStack(Managed!Under(1)), StaticsSeen, GraphSeen)
  BY <1>2, <1>3, BecomeMeans DEF Plain
<1> QED BY <1>2, <1>4 DEF Managed!Pop, Plain

LEMMA UnwindManaged ==
    ASSUME NEW R, NEW D, Plain(D, R), frames # <<>>, Unwind, statics' = statics
    PROVE  Managed!Unwind
<1>1. CallsSeen' = <<>>
  BY DEF Plain, Names, Unwind, CallsSeen
<1>2. StaticsSeen' = StaticsSeen
  BY DEF Plain, Names
<1>3. Managed!Become(<<>>, StaticsSeen, GraphSeen)
  BY <1>1, <1>2, BecomeMeans DEF Plain
<1>4. Managed!Running
  BY TopFrame DEF Plain
<1> QED BY <1>3, <1>4 DEF Managed!Unwind, Plain

LEMMA PushesManaged ==
    ASSUME NEW R, NEW D, Plain(D, R),
           AconstNull \/ Dup \/ (\E j \in 1..Locals : Aload(j)) \/ (\E x \in Statics : GetStatic(x))
    PROVE  Managed!Push
<1>1. frames # <<>> /\ statics' = statics
  BY DEF AconstNull, Dup, Aload, GetStatic, Push, Executing
<1>2. /\ Managed!Frame.loc = [j \in 1..Locals |-> D[Current.loc[j]]]
      /\ Managed!Frame.stk = Mapped(D, Stack) /\ Stack \in Seq(R)
      /\ Stack # <<>> => Managed!Top = D[Last(Stack)] /\ Last(Stack) \in R
  BY <1>1, TopFrame DEF Plain
<1>3. Takes(D, R, Int) /\ Null \in R /\ D[Null] = Null /\ SlotsIn(R)
  BY DEF Plain, Names
<1>4. CASE AconstNull
  <2>1. D[Null] \in Managed!Pushable
    BY <1>3 DEF Managed!Pushable
  <2>2. frames' = WithStack(Append(Stack, Null))
    BY <1>4 DEF AconstNull, Push
  <2> QED BY <1>1, <1>3, <2>1, <2>2, PushManaged
<1>5. CASE Dup
  <2>1. PICK v : v = Last(Stack)
    OBVIOUS
  <2>2. Stack # <<>> /\ frames' = WithStack(Append(Stack, v))
    BY <1>5, <2>1 DEF Dup, Push
  <2>3. Managed!Frame.stk # <<>>
    BY <1>2, <1>3, <2>2, MappedFacts
  <2>4. v \in R /\ D[v] \in Managed!Pushable
    BY <1>2, <2>1, <2>2, <2>3 DEF Managed!Pushable
  <2> QED BY <1>1, <2>2, <2>4, PushManaged
<1>6. ASSUME NEW j \in 1..Locals, Aload(j) PROVE Managed!Push
  <2>1. PICK v : v = Current.loc[j]
    OBVIOUS
  <2>2. v \in R
    BY <1>1, <1>3, <2>1, StackFacts
  <2>3. PICK loc : loc = Managed!Frame.loc
    OBVIOUS
  <2>4. j \in DOMAIN loc /\ D[v] = loc[j]
    BY <1>2, <2>1, <2>3
  <2>5. D[v] \in Managed!Pushable
    BY <2>3, <2>4 DEF Managed!Pushable, Managed!ToSet
  <2>6. frames' = WithStack(Append(Stack, v))
    BY <1>6, <2>1 DEF Aload, Push
  <2> QED BY <1>1, <2>2, <2>5, <2>6, PushManaged
<1>7. ASSUME NEW x \in Statics, GetStatic(x) PROVE Managed!Push
  <2>1. PICK v : v = statics[x]
    OBVIOUS
  <2>2. v \in R
    BY <1>3, <2>1 DEF SlotsIn
  <2>3. D[v] = StaticsSeen[x]
    BY <2>1 DEF Plain, Names
  <2>4. D[v] \in Managed!Pushable
    BY <2>3 DEF Managed!Pushable, Plain
  <2>5. frames' = WithStack(Append(Stack, v))
    BY <1>7, <2>1 DEF GetStatic, Push
  <2> QED BY <1>1, <2>2, <2>4, <2>5, PushManaged
<1> QED BY <1>4, <1>5, <1>6, <1>7

\* A new frame as the managed heap has it.
LEMMA EntryFrame ==
    ASSUME NEW R, NEW D, Takes(D, R, Int), Null \in R, D[Null] = Null, NEW args \in Seq(R)
    PROVE  /\ NewFrame(args) \in FrameOf(R)
           /\ OnFrames(D, R)[NewFrame(args)] = Managed!Entry(Mapped(D, args))
<1>1. NewFrame(args) \in FrameOf(R)
  BY NewFrameType
<1>2. PICK f : f = NewFrame(args)
  OBVIOUS
<1>3. /\ \A j \in 1..Locals : f.loc[j] = IF j <= Len(args) THEN args[j] ELSE Null
      /\ f.stk = <<>>
  BY <1>2 DEF NewFrame
<1>4. OnFrames(D, R)[f] = [loc |-> [j \in 1..Locals |-> D[f.loc[j]]], stk |-> Mapped(D, f.stk)]
  BY <1>1, <1>2 DEF OnFrames
<1>5. Len(Mapped(D, args)) = Len(args) /\ \A j \in 1..Len(args) : Mapped(D, args)[j] = D[args[j]]
  BY MappedFacts
<1>6. ASSUME NEW j \in 1..Locals
      PROVE  D[f.loc[j]] = IF j <= Len(Mapped(D, args)) THEN Mapped(D, args)[j] ELSE Null
  BY <1>3, <1>5, HeapAssumption
<1>7. Mapped(D, f.stk) = <<>>
  BY <1>3 DEF Mapped
<1> QED BY <1>1, <1>2, <1>4, <1>6, <1>7 DEF Managed!Entry

LEMMA EnterManaged ==
    ASSUME NEW R, NEW D, Plain(D, R), Enter
    PROVE  Managed!Enter
<1>1. Takes(D, R, Int) /\ Null \in R /\ D[Null] = Null
  BY DEF Plain, Names
<1>2. <<>> \in Seq(R) /\ Mapped(D, <<>>) = <<>>
  BY DEF Mapped
<1>3. /\ NewFrame(<<>>) \in FrameOf(R)
      /\ OnFrames(D, R)[NewFrame(<<>>)] = Managed!Entry(<<>>)
  BY <1>1, <1>2, EntryFrame
<1>4. frames' = <<NewFrame(<<>>)>> /\ statics' = statics /\ frames = <<>>
  BY DEF Enter
<1>5. CallsSeen' = <<Managed!Entry(<<>>)>>
  BY <1>3, <1>4 DEF Plain, Names, Mapped
<1>6. StaticsSeen' = StaticsSeen
  BY <1>4 DEF Plain, Names
<1>7. ~Managed!Running
  BY <1>4 DEF Managed!Running, CallsSeen, Plain
<1>8. Managed!Become(<<Managed!Entry(<<>>)>>, StaticsSeen, GraphSeen)
  BY <1>5, <1>6, BecomeMeans DEF Plain
<1> QED BY <1>7, <1>8 DEF Managed!Enter, Plain

LEMMA StoreManaged ==
    ASSUME NEW R, NEW D, Plain(D, R), NEW j \in 1..Locals, Astore(j)
    PROVE  Managed!Store
<1>1. frames # <<>> /\ Stack # <<>> /\ statics' = statics
  BY DEF Astore, Executing
<1>2. /\ Stack \in Seq(R) /\ Last(Stack) \in R /\ Managed!Top = D[Last(Stack)]
      /\ Managed!Frame.loc = [i \in 1..Locals |-> D[Current.loc[i]]]
  BY <1>1, TopFrame DEF Plain
<1>3. 1 \in 0..Len(Stack)
  BY <1>1, <1>2
<1>4. Managed!Depth(1) /\ Drop(1) \in Seq(R) /\ Managed!Under(1) = Mapped(D, Drop(1))
  BY <1>1, <1>3, UnderFrame DEF Plain
<1>5. PICK E : E = OnFrames(D, R)
  OBVIOUS
<1>6. /\ Takes(D, R, Int) /\ Takes(E, FrameOf(R), FrameOf(Int))
      /\ frames \in Seq(FrameOf(R)) /\ SlotsIn(R)
  BY <1>5, OnFramesTakes DEF Plain, Names, SlotsIn
<1>7. PICK s, v : s = Drop(1) /\ v = Last(Stack)
  OBVIOUS
<1>8. PICK loc : loc = [Current.loc EXCEPT ![j] = v]
  OBVIOUS
<1>9. loc \in [1..Locals -> R] /\ \A i \in 1..Locals : loc[i] = IF i = j THEN v ELSE Current.loc[i]
  BY <1>1, <1>2, <1>6, <1>7, <1>8, StackFacts
<1>10. PICK g : g = [loc |-> loc, stk |-> s]
  OBVIOUS
<1>11. g \in FrameOf(R)
  BY <1>4, <1>7, <1>9, <1>10 DEF FrameOf
<1>12. frames' = [frames EXCEPT ![Len(frames)] = g]
  BY <1>7, <1>8, <1>10 DEF Astore, Current
<1>13. PICK c, f : c = CallsSeen /\ f = Managed!Frame
  OBVIOUS
<1>14. c = Mapped(E, frames) /\ CallsSeen' = Mapped(E, frames')
  BY <1>5, <1>13 DEF Plain, Names
<1>15. Len(c) = Len(frames) /\ f = c[Len(c)]
  BY <1>6, <1>13, <1>14, MappedFacts DEF Managed!Frame, Managed!Last, Last, Plain
<1>16. CallsSeen' = [c EXCEPT ![Len(c)] = E[g]]
  <2>1. Mapped(E, [frames EXCEPT ![Len(frames)] = g])
          = [Mapped(E, frames) EXCEPT ![Len(frames)] = E[g]]
    BY <1>1, <1>6, <1>11, MappedLast
  <2>2. CallsSeen' = [c EXCEPT ![Len(frames)] = E[g]]
    BY <1>12, <1>14, <2>1
  <2> QED BY <1>15, <2>2
<1>17. PICK t : t = Managed!Top
  OBVIOUS
<1>18. [i \in 1..Locals |-> D[loc[i]]] = [f.loc EXCEPT ![j] = t]
  BY <1>2, <1>7, <1>9, <1>13, <1>17
<1>19. E[g] = [loc |-> [f.loc EXCEPT ![j] = t], stk |-> Managed!Under(1)]
  BY <1>4, <1>5, <1>7, <1>10, <1>11, <1>18 DEF OnFrames
<1>20. CallsSeen' = [c EXCEPT ![Len(c)] = [loc |-> [@.loc EXCEPT ![j] = t], stk |-> Managed!Under(1)]]
  BY <1>15, <1>16, <1>19
<1>21. CallsSeen' = [CallsSeen EXCEPT ![Len(CallsSeen)] =
                       [loc |-> [@.loc EXCEPT ![j] = Managed!Top], stk |-> Managed!Under(1)]]
  BY <1>13, <1>17, <1>20
<1>22. StaticsSeen' = StaticsSeen
  BY <1>1 DEF Plain, Names
<1>23. Managed!Become([CallsSeen EXCEPT ![Len(CallsSeen)] =
                       [loc |-> [@.loc EXCEPT ![j] = Managed!Top], stk |-> Managed!Under(1)]],
                     StaticsSeen, GraphSeen)
  BY <1>21, <1>22, BecomeMeans DEF Plain
<1> QED BY <1>4, <1>23 DEF Managed!Store, Plain

LEMMA PutStaticManaged ==
    ASSUME NEW R, NEW D, Plain(D, R), NEW x \in Statics, PutStatic(x)
    PROVE  Managed!PutStatic
<1>1. frames # <<>> /\ Stack # <<>> /\ statics' = [statics EXCEPT ![x] = Last(Stack)]
      /\ frames' = WithStack(Drop(1))
  BY DEF PutStatic, Executing
<1>2. Stack \in Seq(R) /\ Managed!Top = D[Last(Stack)]
  BY <1>1, TopFrame DEF Plain
<1>3. 1 \in 0..Len(Stack)
  BY <1>1, <1>2
<1>4. CallsSeen' = Managed!WithStack(Managed!Under(1)) /\ Managed!Depth(1)
  BY <1>1, <1>3, UnderFrame DEF Plain, Names
<1>5. PICK t : t = Managed!Top
  OBVIOUS
<1>6. PICK y : y = StaticsSeen
  OBVIOUS
<1>7. y = [s \in Statics |-> D[statics[s]]] /\ StaticsSeen' = [s \in Statics |-> D[statics'[s]]]
  BY <1>6 DEF Plain, Names
<1>8. statics \in [Statics -> R]
  BY DEF Plain, Names, SlotsIn
<1>9. StaticsSeen' = [y EXCEPT ![x] = t]
  BY <1>1, <1>2, <1>5, <1>7, <1>8
<1>10. Managed!Become(Managed!WithStack(Managed!Under(1)), [StaticsSeen EXCEPT ![x] = Managed!Top],
                     GraphSeen)
  BY <1>4, <1>5, <1>6, <1>9, BecomeMeans DEF Plain
<1> QED BY <1>4, <1>10 DEF Managed!PutStatic, Plain

\* The set a bytecode's values come from is the graph.
Viewing(D, A) ==
    /\ Complete(A) /\ GraphSeen = {Seen(a) : a \in A}
    /\ \A r \in A \cup {Null} : D[r] = Denote(r)

LEMMA GetFieldManaged ==
    ASSUME NEW A, NEW D, Plain(D, A \cup {Null}), Viewing(D, A), NEW k \in FieldIds, GetField(k),
           pc' # "wild"
    PROVE  Managed!GetField \/ Managed!Unwind
<1>1. PICK R : R = A \cup {Null}
  OBVIOUS
<1>2. Plain(D, R) /\ frames # <<>> /\ Stack # <<>> /\ statics' = statics
  BY <1>1 DEF GetField, Executing
<1>3. PICK obj : obj = Last(Stack)
  OBVIOUS
<1>4. CASE Unwind
  BY <1>2, <1>4, UnwindManaged
<1>5. ASSUME IsObject(obj), k \in Pointers[mem[obj].cls],
             frames' = WithStack(Append(Drop(1), mem[obj].fields[k]))
      PROVE  Managed!GetField
  <2>1. Stack \in Seq(R) /\ obj \in R /\ Managed!Top = D[obj]
    BY <1>2, <1>3, TopFrame DEF Plain
  <2>2. obj # Null
    BY <1>5, RegionFacts DEF IsObject, Null
  <2>3. PICK v, o : v = mem[obj].fields[k] /\ o = Seen(obj)
    OBVIOUS
  <2>4. /\ obj \in A /\ v \in R /\ D[obj] = mem[obj].id /\ D[v] = Denote(v)
    BY <1>1, <1>5, <2>1, <2>2, <2>3 DEF Viewing, Complete, Denote
  <2>5. o \in GraphSeen /\ o.id = D[obj] /\ o.cls = mem[obj].cls /\ o.fields[k] = D[v]
    BY <2>3, <2>4 DEF Viewing, Seen
  <2>6. 1 \in 0..Len(Stack)
    BY <1>2, <2>1
  <2>7. /\ Managed!Depth(1) /\ Drop(1) \in Seq(R) /\ Managed!Under(1) = Mapped(D, Drop(1))
    BY <1>2, <2>6, UnderFrame DEF Plain
  <2>8. PICK s : s = Append(Drop(1), v)
    OBVIOUS
  <2>9. s \in Seq(R) /\ Mapped(D, s) = Append(Managed!Under(1), D[v])
    BY <1>2, <2>4, <2>7, <2>8, MappedAppend DEF Plain, Names
  <2>10. Managed!WithStack(Mapped(D, s)) = Mapped(OnFrames(D, R), WithStack(s))
    BY <1>2, <2>9, TopFrame DEF Plain
  <2>11. CallsSeen' = Managed!WithStack(Append(Managed!Under(1), o.fields[k]))
    BY <1>2, <1>5, <2>3, <2>5, <2>8, <2>9, <2>10 DEF Plain, Names
  <2>12. StaticsSeen' = StaticsSeen
    BY <1>2 DEF Plain, Names
  <2>13. Managed!Become(Managed!WithStack(Append(Managed!Under(1), o.fields[k])), StaticsSeen,
                        GraphSeen)
    BY <1>2, <2>11, <2>12, BecomeMeans DEF Plain
  <2> QED BY <1>2, <1>5, <2>1, <2>5, <2>7, <2>13 DEF Managed!GetField, Plain
<1> QED BY <1>3, <1>4, <1>5 DEF GetField, Wild

LEMMA InvokeManaged ==
    ASSUME NEW R, NEW D, Plain(D, R), NEW n \in 0..(Locals + 1), NEW r \in BOOLEAN, Invoke(n, r),
           pc' # "wild"
    PROVE  Managed!Call \/ Managed!Unwind
<1>1. PICK s, t : s = Stack /\ t = Managed!Frame.stk
  OBVIOUS
<1>2. frames # <<>> /\ Len(s) >= n /\ statics' = statics
  BY <1>1 DEF Invoke, Executing
<1>3. /\ s \in Seq(R) /\ Len(s) \in Nat /\ t = Mapped(D, s) /\ Len(t) = Len(s)
      /\ Managed!Running
  BY <1>1, <1>2, TopFrame DEF Plain
<1>4. n \in Nat /\ n \in 0..Len(s)
  BY <1>2, <1>3, HeapAssumption
<1>5. /\ Drop(n) \in Seq(R)
      /\ Managed!WithStack(Managed!Under(n)) = Mapped(OnFrames(D, R), WithStack(Drop(n)))
  BY <1>1, <1>2, <1>4, UnderFrame DEF Plain
<1>6. PICK caller : caller = WithStack(Drop(n))
  OBVIOUS
<1>7. PICK args : args = SubSeq(s, Len(s) - n + 1, Len(s))
  OBVIOUS
<1>8. CASE Unwind
  BY <1>2, <1>8, UnwindManaged
<1>9. StaticsSeen' = StaticsSeen /\ n \in 0..Len(t)
  BY <1>2, <1>3, <1>4 DEF Plain, Names
<1>10. CASE frames' = caller
  <2>1. CallsSeen' = Managed!WithStack(Managed!Under(n))
    BY <1>5, <1>6, <1>10 DEF Plain, Names
  <2>2. Managed!Become(Managed!WithStack(Managed!Under(n)), StaticsSeen, GraphSeen)
    BY <1>9, <2>1, BecomeMeans DEF Plain
  <2> QED BY <1>1, <1>3, <1>9, <2>2 DEF Managed!Call, Plain
<1>11. CASE n <= Locals /\ frames' = Append(caller, NewFrame(args))
  <2>1. PICK m : m = Len(s) - n + 1
    OBVIOUS
  <2>2. m \in 1..(Len(s) + 1) /\ Len(s) \in (m - 1)..Len(s)
    BY <1>3, <1>4, <2>1
  <2>3. /\ Takes(D, R, Int) /\ Null \in R /\ D[Null] = Null /\ SlotsIn(R)
        /\ Takes(OnFrames(D, R), FrameOf(R), FrameOf(Int))
    BY OnFramesTakes DEF Plain, Names
  <2>4. args \in Seq(R) /\ Mapped(D, args) = SubSeq(t, m, Len(t))
    <3>1. args \in Seq(R)
      BY <1>3, <1>7, <2>1, <2>2
    <3>2. SubSeq(Mapped(D, s), m, Len(s)) = Mapped(D, SubSeq(s, m, Len(s)))
      BY <1>3, <2>2, <2>3, MappedSub
    <3> QED BY <1>3, <1>7, <2>1, <3>1, <3>2
  <2>5. PICK f, e : f = NewFrame(args) /\ e = Managed!Entry(SubSeq(t, m, Len(t)))
    OBVIOUS
  <2>6. f \in FrameOf(R) /\ OnFrames(D, R)[f] = e
    <3>1. Managed!Entry(Mapped(D, args)) = Managed!Entry(SubSeq(t, m, Len(t)))
      BY <2>4
    <3> QED BY <2>3, <2>4, <2>5, <3>1, EntryFrame
  <2>7. caller \in Seq(FrameOf(R))
    BY <1>2, <1>5, <1>6, <2>3, WithStackType
  <2>8. Mapped(OnFrames(D, R), Append(caller, f)) = Append(Mapped(OnFrames(D, R), caller), e)
    BY <2>3, <2>6, <2>7, MappedAppend
  <2>9. CallsSeen' = Append(Managed!WithStack(Managed!Under(n)), e)
    BY <1>5, <1>6, <1>11, <2>5, <2>8 DEF Plain, Names
  <2>10. Managed!Become(Append(Managed!WithStack(Managed!Under(n)), e), StaticsSeen, GraphSeen)
    BY <1>9, <2>9, BecomeMeans DEF Plain
  <2>11. m = Len(t) - n + 1
    BY <1>3, <2>1
  <2>12. Managed!Become(Append(Managed!WithStack(Managed!Under(n)),
                               Managed!Entry(SubSeq(t, Len(t) - n + 1, Len(t)))),
                        StaticsSeen, GraphSeen)
    BY <2>5, <2>10, <2>11
  <2> QED BY <1>1, <1>3, <1>9, <1>11, <2>12 DEF Managed!Call, Plain
<1>12. Unwind \/ frames' = caller \/ (n <= Locals /\ frames' = Append(caller, NewFrame(args)))
  BY <1>1, <1>6, <1>7 DEF Invoke, Wild
<1> QED BY <1>8, <1>10, <1>11, <1>12

LEMMA FrontFacts ==
    ASSUME NEW R, NEW V, NEW D, Takes(D, R, V), NEW s \in Seq(R), s # <<>>
    PROVE  /\ Mapped(D, Front(s)) = Front(Mapped(D, s))
           /\ Front(s) \in Seq(R) /\ Len(Front(s)) = Len(s) - 1 /\ Len(s) \in Nat /\ Len(s) >= 1
           /\ \A i \in 1..(Len(s) - 1) : Front(s)[i] = s[i]
<1>1. Len(s) \in Nat /\ Len(s) >= 1 /\ 1 \in 1..(Len(s) + 1) /\ Len(s) - 1 \in (1 - 1)..Len(s)
  OBVIOUS
<1>2. SubSeq(Mapped(D, s), 1, Len(s) - 1) = Mapped(D, SubSeq(s, 1, Len(s) - 1))
  <2>1. PICK n, m : n = Len(s) - 1 /\ m = 1
    OBVIOUS
  <2>2. m \in 1..(Len(s) + 1) /\ n \in (m - 1)..Len(s)
    BY <1>1, <2>1
  <2>3. SubSeq(Mapped(D, s), m, n) = Mapped(D, SubSeq(s, m, n))
    BY <2>2, MappedSub
  <2> QED BY <2>1, <2>3
<1>3. Len(Mapped(D, s)) = Len(s)
  BY MappedFacts
<1>4. /\ SubSeq(s, 1, Len(s) - 1) \in Seq(R) /\ Len(SubSeq(s, 1, Len(s) - 1)) = Len(s) - 1
      /\ \A i \in 1..(Len(s) - 1) : SubSeq(s, 1, Len(s) - 1)[i] = s[i]
  <2>1. PICK n : n = Len(s) - 1
    OBVIOUS
  <2>2. n \in Nat /\ 1 \in Nat /\ 1 <= n + 1 /\ n <= Len(s)
    BY <1>1, <2>1
  <2>3. /\ SubSeq(s, 1, n) \in Seq(R) /\ Len(SubSeq(s, 1, n)) = n
        /\ \A i \in 1..n : SubSeq(s, 1, n)[i] = s[i]
    BY <2>2
  <2> QED BY <2>1, <2>3
<1> QED BY <1>1, <1>2, <1>3, <1>4 DEF Front

LEMMA ReturnManaged ==
    ASSUME NEW R, NEW D, Plain(D, R), Return \/ Areturn
    PROVE  Managed!Return
<1>1. frames # <<>> /\ statics' = statics
  BY DEF Return, Areturn, Executing
<1>2. PICK E, c : E = OnFrames(D, R) /\ c = CallsSeen
  OBVIOUS
<1>3. /\ Takes(D, R, Int) /\ Takes(E, FrameOf(R), FrameOf(Int))
      /\ frames \in Seq(FrameOf(R)) /\ SlotsIn(R)
  BY <1>2, OnFramesTakes DEF Plain, Names, SlotsIn
<1>4. c = Mapped(E, frames) /\ CallsSeen' = Mapped(E, frames')
  BY <1>2 DEF Plain, Names
<1>5. PICK f : f = Front(frames)
  OBVIOUS
<1>6. /\ Mapped(E, f) = Front(c)
      /\ f \in Seq(FrameOf(R)) /\ Len(f) = Len(frames) - 1 /\ Len(frames) \in Nat
      /\ Len(frames) >= 1
  BY <1>1, <1>3, <1>4, <1>5, FrontFacts
<1>7. Managed!Front(c) = Front(c) /\ Managed!Running
  BY <1>1, TopFrame DEF Managed!Front, Front, Plain
<1>8. StaticsSeen' = StaticsSeen
  BY <1>1 DEF Plain, Names
<1>9. ASSUME frames' = f PROVE Managed!Return
  <2>1. CallsSeen' = Managed!Front(CallsSeen)
    BY <1>2, <1>4, <1>6, <1>7, <1>9
  <2>2. Managed!Become(Managed!Front(CallsSeen), StaticsSeen, GraphSeen)
    BY <1>8, <2>1, BecomeMeans DEF Plain
  <2> QED BY <1>7, <2>2 DEF Managed!Return, Plain
<1>10. CASE Return
  BY <1>5, <1>9, <1>10 DEF Return
<1>11. CASE Areturn
  <2>1. CASE Len(frames) = 1
    <3>1. f = <<>>
      BY <1>6, <2>1
    <3> QED BY <1>9, <1>11, <2>1, <3>1 DEF Areturn
  <2>2. CASE Len(frames) # 1
    <3>1. PICK v, k : v = Last(Stack) /\ k = Len(frames) - 1
      OBVIOUS
    <3>2. k \in Nat /\ k >= 1 /\ k = Len(f) /\ f # <<>> /\ k \in 1..Len(f)
      BY <1>6, <2>2, <3>1
    <3>3. Stack \in Seq(R) /\ Stack # <<>> /\ v \in R /\ Managed!Top = D[v]
      BY <1>1, <1>11, <3>1, TopFrame DEF Plain, Areturn
    <3>4. PICK g : g = f[k]
      OBVIOUS
    <3>5. g \in FrameOf(R) /\ g.stk \in Seq(R)
      <4>1. g \in FrameOf(R)
        BY <1>6, <3>2, <3>4
      <4> QED BY <4>1 DEF FrameOf
    <3>6. PICK s : s = Append(g.stk, v)
      OBVIOUS
    <3>7. s \in Seq(R) /\ Mapped(D, s) = Append(Mapped(D, g.stk), D[v])
      BY <1>3, <3>3, <3>5, <3>6, MappedAppend
    <3>8. frames' = TopStack(f, s)
      <4>1. frames' = [f EXCEPT ![k].stk = Append(@, v)]
        BY <1>5, <1>11, <2>2, <3>1 DEF Areturn
      <4>2. [f EXCEPT ![k].stk = Append(@, v)] = [f EXCEPT ![k].stk = s]
        BY <3>4, <3>6
      <4> QED BY <3>2, <4>1, <4>2 DEF TopStack
    <3>9. Mapped(E, TopStack(f, s)) = TopStack(Mapped(E, f), Mapped(D, s))
      <4>1. Takes(D, R, Int) /\ f \in Seq(FrameOf(R)) /\ f # <<>> /\ s \in Seq(R)
        BY <1>3, <1>6, <3>2, <3>7
      <4>2. Mapped(OnFrames(D, R), TopStack(f, s)) = TopStack(Mapped(OnFrames(D, R), f), Mapped(D, s))
        BY <4>1, MappedStack
      <4> QED BY <1>2, <4>2
    <3>10. PICK fc : fc = Managed!Front(c)
      OBVIOUS
    <3>11. fc = Mapped(E, f)
      BY <1>6, <1>7, <3>10
    <3>12. Len(fc) = k /\ fc[k] = E[g]
      BY <1>3, <1>6, <3>2, <3>4, <3>11, MappedFacts
    <3>13. fc[k].stk = Mapped(D, g.stk)
      BY <1>2, <3>5, <3>12 DEF OnFrames
    <3>14. CallsSeen' = [fc EXCEPT ![k].stk = Mapped(D, s)]
      BY <1>4, <3>8, <3>9, <3>11, <3>12 DEF TopStack
    <3>15. CallsSeen' = [fc EXCEPT ![k].stk = Append(@, D[v])]
      BY <3>7, <3>13, <3>14
    <3>16. Len(c) = Len(frames)
      BY <1>3, <1>4, MappedFacts
    <3>17. PICK top0 : top0 = Managed!Top
      OBVIOUS
    <3>18. CallsSeen' = [fc EXCEPT ![Len(c) - 1].stk = Append(@, top0)]
      BY <3>1, <3>3, <3>15, <3>16, <3>17
    <3>19. CallsSeen' = [Managed!Front(CallsSeen) EXCEPT ![Len(CallsSeen) - 1].stk =
                                                        Append(@, Managed!Top)]
      BY <1>2, <3>10, <3>17, <3>18
    <3>20. Managed!Become([Managed!Front(CallsSeen) EXCEPT ![Len(CallsSeen) - 1].stk =
                                                        Append(@, Managed!Top)],
                          StaticsSeen, GraphSeen)
      BY <1>8, <3>19, BecomeMeans DEF Plain
    <3>21. Len(CallsSeen) > 1
      BY <1>2, <1>6, <2>2, <3>16
    <3>22. Managed!Depth(1)
      <4>1. 1 \in 0..Len(Stack)
        BY <3>3
      <4> QED BY <1>1, <4>1, UnderFrame DEF Plain
    <3> QED BY <1>7, <3>20, <3>21, <3>22 DEF Managed!Return, Plain
  <2> QED BY <2>1, <2>2
<1> QED BY <1>10, <1>11

LEMMA DenoteStays ==
    ASSUME NEW A, Complete(A), Refielded, NEW r \in A \cup {Null}
    PROVE  Denote(r)' = Denote(r)
<1>1. \A a \in A : IsObject(a) /\ a \in Addr
  BY DEF Complete, IsObject
<1> QED BY <1>1 DEF Denote, Refielded, Null

LEMMA SeenStays ==
    ASSUME NEW A, Complete(A), Refielded, NEW a \in A, mem'[a] = mem[a]
    PROVE  Seen(a)' = Seen(a)
<1>1. \A k \in FieldIds : mem[a].fields[k] \in A \cup {Null}
  BY DEF Complete
<1>2. \A k \in FieldIds : Denote(mem[a].fields[k])' = Denote(mem[a].fields[k])
  <2>1. ASSUME NEW k \in FieldIds PROVE Denote(mem[a].fields[k])' = Denote(mem[a].fields[k])
    <3>1. PICK r \in A \cup {Null} : r = mem[a].fields[k]
      BY <1>1
    <3>2. mem'[a].fields[k] = r
      BY <3>1
    <3>3. Denote(r)' = Denote(r)
      BY DenoteStays
    <3> QED BY <3>1, <3>2, <3>3 DEF Denote, IsObject
  <2> QED BY <2>1
<1> QED BY <1>2 DEF Seen

LEMMA PlainBytecode ==
    ASSUME NEW A, NEW D, Plain(D, A \cup {Null}), Viewing(D, A), Bytecode, UNCHANGED mem,
           pc' # "wild", Executing \/ frames = <<>>
    PROVE  Managed!Next \/ UNCHANGED Managed!vars \/ (\E k \in FieldIds : PutField(k))
<1>1. PICK R : R = A \cup {Null}
  OBVIOUS
<1>2. Plain(D, R)
  BY <1>1
<1>3. CASE Enter
  BY <1>2, <1>3, EnterManaged DEF Managed!Next
<1>4. CASE \/ AconstNull \/ Dup \/ (\E j \in 1..Locals : Aload(j))
           \/ (\E x \in Statics : GetStatic(x))
  BY <1>2, <1>4, PushesManaged DEF Managed!Next
<1>5. CASE Pop
  BY <1>2, <1>5, PopManaged DEF Managed!Next
<1>6. CASE Return \/ Areturn
  BY <1>2, <1>6, ReturnManaged DEF Managed!Next
<1>7. CASE Throw \/ Exception
  <2>1. frames # <<>> /\ Unwind /\ statics' = statics
    BY <1>7 DEF Throw, Exception, Executing, Wild
  <2> QED BY <1>2, <2>1, UnwindManaged DEF Managed!Next
<1>8. ASSUME NEW j \in 1..Locals, Astore(j) PROVE Managed!Next
  BY <1>2, <1>8, StoreManaged DEF Managed!Next
<1>9. ASSUME NEW k \in FieldIds, GetField(k) PROVE Managed!Next
  BY <1>9, GetFieldManaged DEF Managed!Next
<1>10. ASSUME NEW x \in Statics, PutStatic(x) PROVE Managed!Next
  BY <1>2, <1>10, PutStaticManaged DEF Managed!Next
<1>11. ASSUME NEW n \in 0..(Locals + 1), NEW r \in BOOLEAN, Invoke(n, r) PROVE Managed!Next
  BY <1>2, <1>11, InvokeManaged DEF Managed!Next
<1>12. ASSUME NEW c \in Classes, New(c) PROVE UNCHANGED Managed!vars
  <2>1. UNCHANGED <<frames, statics>>
    BY <1>12 DEF New, heapVars
  <2>2. CallsSeen' = CallsSeen /\ StaticsSeen' = StaticsSeen
    BY <2>1 DEF Plain, Names
  <2>3. GraphSeen = Managed!Reachable(Managed!Named(CallsSeen, StaticsSeen), GraphSeen)
    BY SeenReachable DEF ReachLaw, Viewing
  <2>4. GraphSeen' = GraphSeen
    BY <2>2, <2>3 DEF Plain, Collected
  <2> QED BY <2>2, <2>4, UnseenManaged DEF View, Plain
<1> QED BY <1>3, <1>4, <1>5, <1>6, <1>7, <1>8, <1>9, <1>10, <1>11, <1>12 DEF Bytecode

\* What PUTFIELD makes of the objects.
LEMMA StoredSeen ==
    ASSUME TypeOK, Closed, NEW A, A = Graph, NEW D, Viewing(D, A), Refielded,
           NEW obj, NEW value, NEW k \in FieldIds, Stores(obj, k, value)
    PROVE  /\ obj \in A /\ value \in A \cup {Null}
           /\ {Seen(a)' : a \in A}
                = (GraphSeen \ {Seen(obj)}) \cup {[Seen(obj) EXCEPT !.fields[k] = D[value]]}
<1>1. obj \in A /\ value \in A \cup {Null}
  BY StoredFacts
<1>2. Complete(A) /\ GraphSeen = {Seen(a) : a \in A}
  BY DEF Viewing
<1>3. /\ mem'[obj].cls = mem[obj].cls /\ mem'[obj].id = mem[obj].id
      /\ mem'[obj].fields = [mem[obj].fields EXCEPT ![k] = value]
      /\ obj \in Addr /\ mem[obj].fields \in [FieldIds -> Ref]
  <2>1. IsObject(obj)
    BY <1>1, <1>2 DEF Complete
  <2> QED BY <2>1, StoresFacts, ObjectFacts
<1>4. ASSUME NEW a \in A, a # obj PROVE Seen(a)' = Seen(a) /\ Seen(a) # Seen(obj)
  <2>1. mem'[a] = mem[a]
    <3>1. a \in Addr
      BY <1>2 DEF Complete, IsObject
    <3> QED BY <1>4, <3>1, StoresElsewhere
  <2>2. Seen(a).id = mem[a].id /\ Seen(obj).id = mem[obj].id
    BY DEF Seen
  <2>3. mem[a].id # mem[obj].id
    BY <1>1, <1>2, <1>4 DEF Complete
  <2> QED BY <1>2, <2>1, <2>2, <2>3, SeenStays
<1>5. Seen(obj)' = [Seen(obj) EXCEPT !.fields[k] = D[value]]
  <2>1. ASSUME NEW i \in FieldIds
        PROVE  Denote(mem[obj].fields[i])' = IF i = k THEN D[value] ELSE Denote(mem[obj].fields[i])
    <3>1. PICK r : r = IF i = k THEN value ELSE mem[obj].fields[i]
      OBVIOUS
    <3>2. mem'[obj].fields[i] = r
      BY <1>3, <3>1
    <3>3. r \in A \cup {Null}
      BY <1>1, <1>2, <3>1 DEF Complete
    <3>4. Denote(r)' = Denote(r)
      BY <1>2, <3>3, DenoteStays
    <3>5. Denote(mem[obj].fields[i])' = Denote(r)
      BY <3>2, <3>4 DEF Denote, IsObject
    <3>6. D[value] = Denote(value)
      BY <1>1 DEF Viewing
    <3> QED BY <3>1, <3>5, <3>6
  <2>2. PICK f, g, v : /\ f = [i \in FieldIds |-> Denote(mem[obj].fields[i])]
                       /\ g = [i \in FieldIds |-> Denote(mem[obj].fields[i])']
                       /\ v = D[value]
    OBVIOUS
  <2>3. g = [f EXCEPT ![k] = v]
    BY <2>1, <2>2
  <2>4. Seen(obj) = [id |-> mem[obj].id, cls |-> mem[obj].cls, fields |-> f]
    BY <2>2 DEF Seen
  <2>5. Seen(obj)' = [id |-> mem[obj].id, cls |-> mem[obj].cls, fields |-> g]
    BY <1>3, <2>2 DEF Seen
  <2> QED BY <2>2, <2>3, <2>4, <2>5
<1>6. PICK o, o1 : o = Seen(obj) /\ o1 = [Seen(obj) EXCEPT !.fields[k] = D[value]]
  OBVIOUS
<1>7. {Seen(a)' : a \in A} = ({Seen(a) : a \in A} \ {o}) \cup {o1}
  BY <1>1, <1>4, <1>5, <1>6
<1> QED BY <1>1, <1>2, <1>6, <1>7

\* The objects of A after the step.
SeenNext(objs, A) == objs = {Seen(a)' : a \in A}

LEMMA PutFieldManaged ==
    ASSUME TypeOK, Closed, Kept, Kept', next' = next, NEW A, A = Graph,
           NEW R, R = A \cup {Null}, NEW D, Names(D, R), Viewing(D, A), Refielded,
           NEW objs, Collected(objs), SeenNext(objs, A),
           NEW obj, NEW value, NEW k \in FieldIds, Stores(obj, k, value)
    PROVE  Managed!PutField
<1>2. /\ Names(D, R) /\ frames # <<>> /\ Len(Stack) >= 2
      /\ value = Last(Stack) /\ obj = Stack[Len(Stack) - 1] /\ k \in Pointers[mem[obj].cls]
      /\ frames' = WithStack(Drop(2)) /\ statics' = statics
  BY DEF Stores, Executing
<1>3. PICK s, t : s = Stack /\ t = Managed!Frame.stk
  OBVIOUS
<1>4. /\ s \in Seq(R) /\ Len(s) \in Nat /\ t = Mapped(D, s) /\ Len(t) = Len(s)
      /\ Managed!Top = D[Last(s)] /\ Managed!Running
  <2>1. Stack # <<>>
    BY <1>2
  <2> QED BY <1>2, <1>3, <2>1, TopFrame
<1>5. Len(s) >= 2 /\ 2 \in 0..Len(s)
  BY <1>2, <1>3, <1>4
<1>6. t[Len(t) - 1] = D[obj]
  <2>1. PICK n : n = Len(s) - 1
    OBVIOUS
  <2>2. n \in 1..Len(s) /\ obj = s[n]
    BY <1>2, <1>3, <1>4, <1>5, <2>1
  <2>3. Takes(D, R, Int)
    BY <1>2 DEF Names
  <2>4. t[n] = D[s[n]]
    BY <1>4, <2>2, <2>3, MappedFacts
  <2> QED BY <1>4, <2>1, <2>2, <2>4
<1>7. /\ obj \in A
      /\ {Seen(a)' : a \in A}
           = (GraphSeen \ {Seen(obj)}) \cup {[Seen(obj) EXCEPT !.fields[k] = D[value]]}
  BY StoredSeen
<1>8. PICK o : o = Seen(obj)
  OBVIOUS
<1>9. o \in GraphSeen /\ o.id = t[Len(t) - 1] /\ o.cls = mem[obj].cls
  <2>1. D[obj] = Denote(obj) /\ IsObject(obj)
    BY <1>7 DEF Viewing, Complete
  <2>2. obj # Null
    BY <2>1, RegionFacts DEF IsObject, Null
  <2> QED BY <1>6, <1>7, <1>8, <2>1, <2>2 DEF Seen, Viewing, Denote
<1>10. /\ Managed!Depth(2) /\ CallsSeen' = Managed!WithStack(Managed!Under(2))
  <2>1. 2 \in 0..Len(Stack)
    BY <1>3, <1>5
  <2>2. /\ Managed!Depth(2)
        /\ Managed!WithStack(Managed!Under(2)) = Mapped(OnFrames(D, R), WithStack(Drop(2)))
    BY <1>2, <2>1, UnderFrame
  <2>3. CallsSeen' = Mapped(OnFrames(D, R), frames')
    BY <1>2 DEF Names
  <2> QED BY <1>2, <2>2, <2>3
<1>11. StaticsSeen' = StaticsSeen
  BY <1>2 DEF Names
<1>12. Collected((GraphSeen \ {o}) \cup {[o EXCEPT !.fields[k] = Managed!Top]})
  <2>1. PICK v : v = Managed!Top
    OBVIOUS
  <2>2. v = D[value]
    BY <1>2, <1>3, <1>4, <2>1
  <2>3. objs = (GraphSeen \ {o}) \cup {[o EXCEPT !.fields[k] = v]}
    BY <1>7, <1>8, <2>2 DEF SeenNext
  <2> QED BY <2>1, <2>3
<1>13. Managed!Become(Managed!WithStack(Managed!Under(2)), StaticsSeen,
                      (GraphSeen \ {o}) \cup {[o EXCEPT !.fields[k] = Managed!Top]})
  BY <1>10, <1>11, <1>12, BecomeMeans
<1> QED BY <1>2, <1>3, <1>9, <1>10, <1>13 DEF Managed!PutField

LEMMA BytecodeManaged ==
    ASSUME RefinementInv, Kept, Bytecode
    PROVE  Managed!Next \/ UNCHANGED Managed!vars
<1>1. PICK A : A = Graph
  OBVIOUS
<1>2. PICK D : Names(D, A \cup {Null}) /\ \A r \in A \cup {Null} : D[r] = Denote(r)
  BY <1>1, BytecodeNames
<1>3. PICK R : R = A \cup {Null}
  OBVIOUS
<1>4. Names(D, R)
  BY <1>2, <1>3
<1>5. /\ Kept' /\ next' = next /\ (Executing \/ frames = <<>>)
      /\ Viewing(D, A)
  BY <1>1, <1>2, BytecodeNames DEF Viewing
<1>6. PICK objs : objs = {Seen(a)' : a \in A}
  OBVIOUS
<1>7. Collected(objs) /\ SeenNext(objs, A)
  BY <1>1, <1>6, BytecodeNames DEF Collected, SeenNext
<1>8. pc = "run"
  BY BytecodeQuiet
<1>9. TypeOK /\ IInv /\ Closed
  BY <1>8, GraphComplete DEF Dead
<1>10. pc' # "wild" /\ Refielded
  BY <1>9, BytecodeTame, BytecodeMem
<1>11. CASE UNCHANGED mem
  <2>1. \A a \in A : Seen(a)' = Seen(a)
    BY <1>5, <1>10, <1>11, SeenStays DEF Viewing
  <2>2. objs = GraphSeen
    BY <1>5, <1>6, <2>1 DEF Viewing
  <2>3. Plain(D, A \cup {Null})
    <3>1. Collected(GraphSeen)
      BY <1>7, <2>2
    <3> QED BY <1>2, <1>5, <3>1 DEF Plain
  <2>4. CASE \E k \in FieldIds : PutField(k)
    <3>1. Executing /\ (Unwind \/ \E obj, value : \E k \in FieldIds : Stores(obj, k, value))
      BY <1>10, <2>4 DEF PutField, Wild, Stores
    <3>2. CASE Unwind
      <4>1. frames # <<>> /\ statics' = statics
        BY <2>4 DEF PutField, Executing
      <4> QED BY <2>3, <3>2, <4>1, UnwindManaged DEF Managed!Next
    <3>3. ASSUME NEW obj, NEW value, NEW k \in FieldIds, Stores(obj, k, value)
          PROVE  Managed!Next
      <4>1. Managed!PutField
        BY <1>1, <1>3, <1>4, <1>5, <1>7, <1>9, <1>10, <3>3, PutFieldManaged
      <4> QED BY <4>1 DEF Managed!Next
    <3> QED BY <3>1, <3>2, <3>3
  <2>5. Managed!Next \/ UNCHANGED Managed!vars \/ (\E k \in FieldIds : PutField(k))
    BY <1>5, <1>10, <1>11, <2>3, PlainBytecode
  <2> QED BY <2>4, <2>5
<1>12. ASSUME NEW obj, NEW value, NEW k \in FieldIds, Stores(obj, k, value)
      PROVE  Managed!Next
  <2>1. Managed!PutField
    BY <1>1, <1>3, <1>4, <1>5, <1>7, <1>9, <1>10, <1>12, PutFieldManaged
  <2> QED BY <2>1 DEF Managed!Next
<1> QED BY <1>11, <1>12, BytecodeQuiet

-------------------------------------------------------------------------------
(* NEW and the collections it starts *)

\* The place of the new object is empty.
LEMMA CursorClear == ASSUME GraphInv, top \in Young PROVE ~IsObject(top)
<1>1. TypeOK /\ EdenTiled
  BY DEF GraphInv, EdenInv, IInv
<1>2. PICK a : a = top
  OBVIOUS
<1> SUFFICES ASSUME IsObject(a) PROVE FALSE
  BY <1>2
<1>3. a \in Nat /\ SizeAt(a) \in Nat /\ SizeAt(a) >= 3
  BY <1>1, ObjectFacts
<1>4. a + SizeAt(a) = a \/ a + SizeAt(a) < a
  BY <1>1, <1>2 DEF EdenTiled
<1> QED BY <1>3, <1>4

Grown(A, B, new) == new = top /\ B = Graph /\ A = B \cup {new}

\* The graph with the new object is complete.
LEMMA AllocComplete ==
    ASSUME RefinementInv, Kept, AllocOk, NEW A, NEW B, NEW new, Grown(A, B, new)
    PROVE  /\ Complete(A)' /\ Complete(B) /\ SlotsIn(A \cup {Null}) /\ frames # <<>>
           /\ new \in A /\ new \notin B /\ want \in Classes
           /\ mem'[new].id = next /\ mem'[new].cls = want
           /\ \A k \in FieldIds : mem'[new].fields[k] = Null
           /\ \A a \in B : a # new /\ mem'[a] = mem[a]
<1>1. pc = "alloc"
  BY DEF AllocOk
<1>2. new = top /\ B = Graph /\ A = B \cup {new}
  BY DEF Grown
<1>3. TypeOK /\ IInv /\ Closed /\ Complete(B)
  BY <1>1, <1>2, GraphComplete DEF Dead
<1>4. /\ new \in Young /\ new \in Addr /\ mem'[new] = Fresh(want) /\ mem'[new] # NoObject
      /\ \A a \in Addr : a # new => mem'[a] = mem[a]
  BY <1>2, <1>3, AllocMem DEF Addr
<1>5. ~IsObject(new)
  BY <1>2, <1>4, CursorClear DEF RefinementInv
<1>6. \A a \in B : IsObject(a) /\ a \in Addr /\ a # new /\ mem'[a] = mem[a]
  BY <1>3, <1>4, <1>5 DEF Complete, IsObject
<1>7. want \in Classes /\ next \in Nat \ {0}
  BY <1>3 DEF TypeOK
<1>8. /\ mem'[new].id = next /\ mem'[new].cls = want
      /\ \A k \in FieldIds : mem'[new].fields[k] = Null
  BY <1>4 DEF Fresh
<1>9. SlotsIn(A \cup {Null}) /\ frames # <<>>
  <2>1. Slots \subseteq A
    BY <1>2, <1>3 DEF Closed
  <2> QED BY <1>1, <1>3, <2>1, SlotsMeans DEF IInv, HasFrame
<1>10. SlotsIn(A \cup {Null})'
  <2>1. PICK R : R = A \cup {Null}
    OBVIOUS
  <2>2. SlotsIn(R) /\ new \in R
    BY <1>2, <1>9, <2>1
  <2>3. Append(Stack, new) \in Seq(R)
    BY <1>9, <2>2, StackFacts
  <2>4. frames' = WithStack(Append(Stack, new)) /\ statics' = statics
    BY <1>2 DEF AllocOk
  <2>5. frames' \in Seq(FrameOf(R))
    BY <1>9, <2>2, <2>3, <2>4, WithStackType
  <2> QED BY <2>1, <2>2, <2>4, <2>5 DEF SlotsIn
<1>11. ASSUME NEW a \in A
       PROVE  /\ IsObject(a)' /\ mem'[a].cls \in Classes /\ mem'[a].id \in Nat \ {0}
              /\ \A k \in FieldIds : mem'[a].fields[k] \in A \cup {Null}
  <2>1. CASE a = new
    BY <1>4, <1>7, <1>8, <2>1 DEF IsObject
  <2>2. CASE a # new
    <3>1. a \in B
      BY <1>2, <2>2
    <3> QED BY <1>2, <1>3, <1>6, <3>1 DEF IsObject, Complete
  <2> QED BY <2>1, <2>2
<1>12. ASSUME NEW a \in A, NEW b \in A, mem'[a].id = mem'[b].id PROVE a = b
  <2>1. \A c \in B : mem[c].id # next
    BY <1>6, <1>7 DEF RefinementInv, IdsFresh
  <2>2. \A c \in A : c = new \/ c \in B
    BY <1>2
  <2> QED BY <1>3, <1>6, <1>8, <1>12, <2>1, <2>2 DEF Complete
<1>13. Complete(A)'
  BY <1>10, <1>11, <1>12 DEF Complete
<1> QED BY <1>2, <1>3, <1>5, <1>6, <1>7, <1>8, <1>9, <1>13

LEMMA AllocManaged ==
    ASSUME RefinementInv, Kept, Kept', AllocOk
    PROVE  Managed!New
<1>1. PICK new, B, A : new = top /\ B = Graph /\ A = B \cup {new}
  OBVIOUS
<1>2. /\ Complete(A)' /\ Complete(B) /\ SlotsIn(A \cup {Null}) /\ frames # <<>>
      /\ new \in A /\ new \notin B /\ want \in Classes
      /\ mem'[new].id = next /\ mem'[new].cls = want
      /\ \A k \in FieldIds : mem'[new].fields[k] = Null
      /\ \A a \in B : a # new /\ mem'[a] = mem[a]
  <2>1. Grown(A, B, new)
    BY <1>1 DEF Grown
  <2> QED BY <2>1, AllocComplete
<1>3. PICK objs : objs = {Seen(a)' : a \in A}
  OBVIOUS
<1>4. Collected(objs)
  BY <1>2, <1>3, SeenReachablePrime DEF Collected, ReachLaw
<1>5. \A r \in B \cup {Null} : Denote(r)' = Denote(r)
  BY <1>2 DEF Denote, Complete, IsObject
<1>6. ASSUME NEW a \in B PROVE Seen(a)' = Seen(a)
  <2>1. mem'[a] = mem[a] /\ \A k \in FieldIds : mem[a].fields[k] \in B \cup {Null}
    BY <1>2 DEF Complete
  <2>2. ASSUME NEW k \in FieldIds PROVE Denote(mem[a].fields[k])' = Denote(mem[a].fields[k])
    <3>1. PICK r \in B \cup {Null} : r = mem[a].fields[k]
      BY <2>1
    <3>2. mem'[a].fields[k] = r /\ Denote(r)' = Denote(r)
      BY <1>5, <2>1, <3>1
    <3> QED BY <3>1, <3>2 DEF Denote, IsObject
  <2> QED BY <2>1, <2>2 DEF Seen
<1>7. PICK o : o = [id |-> next, cls |-> want, fields |-> [k \in FieldIds |-> Null]]
  OBVIOUS
<1>8. Seen(new)' = o
  <2>1. ASSUME NEW k \in FieldIds PROVE Denote(mem[new].fields[k])' = Null
    BY <1>2 DEF Denote
  <2> QED BY <1>2, <1>7, <2>1 DEF Seen
<1>9. GraphSeen = {Seen(a) : a \in B}
  BY <1>1 DEF GraphSeen, Seen, Graph
<1>10. objs = GraphSeen \cup {o}
  BY <1>1, <1>3, <1>6, <1>8, <1>9
<1>11. PICK R : R = A \cup {Null}
  OBVIOUS
<1>12. PICK D : D = [r \in R |-> Denote(r)']
  OBVIOUS
<1>13. /\ SlotsIn(R) /\ SlotsIn(R)' /\ SlotsIn(B \cup {Null})
  BY <1>2, <1>11 DEF Complete
<1>14. Takes(D, R, Int) /\ D[Null] = Null /\ Null \in R
  <2>1. \A a \in A : IsObject(a)' /\ mem'[a].id \in Nat
    BY <1>2 DEF Complete
  <2>2. \A r \in R : Denote(r)' \in Int
    BY <1>11, <2>1 DEF Denote, Null
  <2> QED BY <1>11, <1>12, <2>2 DEF Takes, Denote
<1>15. PICK S : S = B \cup {Null}
  OBVIOUS
<1>16. S \subseteq R /\ SlotsIn(S) /\ Reads(D, S) /\ Reads(D, R)'
  BY <1>1, <1>5, <1>11, <1>12, <1>13, <1>15 DEF Reads
<1>17. /\ CallsSeen = Mapped(OnFrames(D, R), frames)
       /\ StaticsSeen = [s \in Statics |-> D[statics[s]]]
  <2>1. /\ S \subseteq R /\ SlotsIn(S) /\ Takes(D, R, Int) /\ Reads(D, S)
    BY <1>14, <1>16
  <2>2. CallsSeen = Mapped(OnFrames(D, R), frames)
    BY <2>1, ViewMapped DEF ViewLaw
  <2>3. StaticsSeen = [s \in Statics |-> D[statics[s]]]
    BY <2>1, ViewMapped DEF ViewLaw
  <2> QED BY <2>2, <2>3
<1>18. /\ CallsSeen' = Mapped(OnFrames(D, R), frames')
       /\ StaticsSeen' = [s \in Statics |-> D[statics'[s]]]
  <2>1. R \subseteq R /\ SlotsIn(R)' /\ Takes(D, R, Int)' /\ Reads(D, R)'
    BY <1>13, <1>14, <1>16
  <2> QED BY <2>1, ViewMappedPrime DEF ViewLaw
<1>19. Names(D, R)
  BY <1>13, <1>14, <1>17, <1>18 DEF Names
<1>20. PICK s : s = Stack
  OBVIOUS
<1>21. /\ s \in Seq(R) /\ Managed!Running /\ Managed!Frame.stk = Mapped(D, s)
       /\ \A t \in Seq(R) : Managed!WithStack(Mapped(D, t)) = Mapped(OnFrames(D, R), WithStack(t))
  BY <1>2, <1>19, <1>20, TopFrame
<1>22. new \in R /\ D[new] = next
  <2>1. IsObject(new)' /\ new # Null
    BY <1>2, RegionFacts DEF Complete, IsObject, Null
  <2> QED BY <1>2, <1>11, <1>12, <2>1 DEF Denote
<1>23. Append(s, new) \in Seq(R) /\ Mapped(D, Append(s, new)) = Append(Managed!Frame.stk, next)
  BY <1>14, <1>21, <1>22, MappedAppend
<1>24. frames' = WithStack(Append(s, new)) /\ statics' = statics /\ next' = next + 1
  BY <1>1, <1>20 DEF AllocOk
<1>25. CallsSeen' = Managed!WithStack(Append(Managed!Frame.stk, next))
  BY <1>18, <1>21, <1>23, <1>24
<1>26. StaticsSeen' = StaticsSeen
  BY <1>17, <1>18, <1>24
<1>27. Collected(GraphSeen \cup {o})
  BY <1>4, <1>10
<1>28. Managed!Become(Managed!WithStack(Append(Managed!Frame.stk, next)), StaticsSeen,
                      GraphSeen \cup {o})
  BY <1>25, <1>26, <1>27, BecomeMeans
<1> QED BY <1>2, <1>7, <1>21, <1>24, <1>28 DEF Managed!New

\* GiveUp: the call stack goes, and with it what only it led to.
LEMMA GiveUpManaged ==
    ASSUME RefinementInv, Kept, Kept', GiveUp
    PROVE  Managed!Unwind
<1>1. pc = "retry" /\ UNCHANGED <<mem, statics, next>> /\ frames' = <<>>
  BY DEF GiveUp, Unwind, mutVars
<1>2. PICK A : A = Graph
  OBVIOUS
<1>3. TypeOK /\ IInv /\ Complete(A) /\ GraphSeen = {Seen(a) : a \in A}
  BY <1>1, <1>2, GraphComplete DEF Dead
<1>4. SlotsIn(A \cup {Null})'
  BY <1>1, <1>3 DEF Complete, SlotsIn
<1>5. Complete(A)'
  BY <1>1, <1>3, <1>4 DEF Complete, IsObject
<1>6. \A r \in A \cup {Null} : Denote(r)' = Denote(r)
  BY <1>1 DEF Denote, IsObject
<1>7. PICK objs : objs = {Seen(a)' : a \in A}
  OBVIOUS
<1>8. Collected(objs)
  BY <1>5, <1>7, SeenReachablePrime DEF Collected, ReachLaw
<1>9. \A a \in A : Seen(a)' = Seen(a)
  BY <1>1 DEF Seen, Denote, IsObject
<1>10. objs = GraphSeen
  BY <1>3, <1>7, <1>9
<1>11. CallsSeen' = <<>>
  BY <1>1 DEF CallsSeen
<1>12. StaticsSeen' = StaticsSeen
  BY <1>1 DEF StaticsSeen, Denote, IsObject
<1>13. Managed!Become(<<>>, StaticsSeen, GraphSeen)
  BY <1>8, <1>10, <1>11, <1>12, BecomeMeans
<1>14. Managed!Running
  <2>1. frames # <<>> /\ frames \in Seq(Frame)
    BY <1>1, <1>3 DEF IInv, HasFrame, TypeOK, HeapTypeOK
  <2>2. CallsSeen # <<>>
    BY <2>1 DEF CallsSeen
  <2> QED BY <2>2 DEF Managed!Running
<1> QED BY <1>1, <1>13, <1>14 DEF Managed!Unwind

\* Starting a collection and trying again show nothing.
LEMMA WaitManaged ==
    ASSUME Kept, Kept', AllocFull \/ Retry
    PROVE  UNCHANGED Managed!vars
<1>1. UNCHANGED <<mem, frames, statics, next>>
  BY DEF AllocFull, Retry, heapVars, mutVars
<1>2. CallsSeen' = CallsSeen /\ StaticsSeen' = StaticsSeen
  BY <1>1 DEF CallsSeen, StaticsSeen, Denote, IsObject
<1>3. GraphSeen' = GraphSeen
  BY <1>1 DEF GraphSeen, ReachFrom, Slots, Roots, OperandRefs, StaticRefs, IsObject, Children, Denote
<1> QED BY <1>1, <1>2, <1>3, UnseenManaged DEF View

-------------------------------------------------------------------------------
(* Every step *)

LEMMA StepManaged ==
    ASSUME RefinementInv, [Next]_vars
    PROVE  [Managed!Next]_(Managed!vars)
<1>1. IInv
  BY DEF RefinementInv, GraphInv, EdenInv
<1>2. CASE ~Kept
  <2>1. ~Kept'
    BY <1>1, <1>2, RisksStay
  <2> QED BY <1>2, <2>1, StutterManaged
<1>3. CASE Kept /\ ~Kept'
  BY <1>3, ForfeitManaged DEF Managed!Next
<1>4. CASE Kept /\ Kept'
  <2>1. CASE Bytecode
    BY <1>4, <2>1, BytecodeManaged
  <2>2. CASE AllocOk
    BY <1>4, <2>2, AllocManaged DEF Managed!Next
  <2>3. CASE AllocFull \/ Retry
    BY <1>4, <2>3, WaitManaged
  <2>4. CASE GiveUp
    BY <1>4, <2>4, GiveUpManaged DEF Managed!Next
  <2>5. CASE Collect
    <3>1. View' = View /\ next' = next
      BY <1>4, <2>5, CollectView DEF Collect, mutVars, RefinementInv
    <3> QED BY <1>4, <3>1, UnseenManaged
  <2>6. CASE UNCHANGED vars
    <3>1. UNCHANGED <<mem, frames, statics, next>>
      BY <2>6 DEF vars, heapVars, mutVars
    <3>2. CallsSeen' = CallsSeen /\ StaticsSeen' = StaticsSeen
      BY <3>1 DEF CallsSeen, StaticsSeen, Denote, IsObject
    <3>3. GraphSeen' = GraphSeen
      BY <3>1 DEF GraphSeen, ReachFrom, Slots, Roots, OperandRefs, StaticRefs, IsObject, Children,
                  Denote
    <3> QED BY <1>4, <3>1, <3>2, <3>3, UnseenManaged DEF View
  <2> QED BY <2>1, <2>2, <2>3, <2>4, <2>5, <2>6 DEF Next, AllocStep
<1> QED BY <1>2, <1>3, <1>4

\* The interpreter, its allocator and its collector implement the managed heap
\* (mod.rs 162-937, mutator.rs, collector.rs), until a named risk occurs: what a
\* program can see of the heap is what it would see if objects never moved and
\* none were ever freed, and a bytecode does to it what the managed heap says.
THEOREM HeapIsManaged == Spec => ImplementsManagedHeap
<1>1. Init => Managed!Init
  BY InitManaged
<1>2. Init => RefinementInv
  BY InitRefinementInv
<1>3. RefinementInv /\ [Next]_vars => RefinementInv'
  BY StepRefinementInv
<1>4. RefinementInv /\ [Next]_vars => [Managed!Next]_(Managed!vars)
  BY StepManaged
<1> QED BY <1>1, <1>2, <1>3, <1>4, PTL DEF Spec, ImplementsManagedHeap, Managed!Spec
=============================================================================
