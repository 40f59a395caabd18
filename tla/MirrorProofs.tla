---------------------------- MODULE MirrorProofs ----------------------------
(* Proofs of the mirror table's invariants, for every set of listeners,    *)
(* keys and reservations, and from them, with what is proved of the        *)
(* tracker and of the hub, that the Mac's mirrors follow the guest.        *)
EXTENDS EndToEnd, Sequences, FiniteSetTheorems, TLAPS

(* How many listeners of a snapshot a key has is a number.                 *)
LEMMA OfFinite ==
  ASSUME NEW S \in SUBSET Listener, NEW k \in Key
  PROVE  IsFiniteSet(Of(S, k)) /\ Cardinality(Of(S, k)) \in Nat
<1>1. Of(S, k) \subseteq Listener
  BY DEF Of
<1> QED
  BY <1>1, ListenerFinite, FS_Subset, FS_CardinalityType

(* want[key] is a number, and zero for a skipped port.                     *)
LEMMA WantedType ==
  ASSUME NEW S \in SUBSET Listener, NEW k \in Key
  PROVE  Wanted(S, k) \in Nat /\ (k \in Skip => Wanted(S, k) = 0)
  BY OfFinite DEF Wanted

(* Nothing is wanted of an empty view.                                     *)
LEMMA WantedEmpty ==
  ASSUME NEW k \in Key
  PROVE  Wanted({}, k) = 0
<1>1. Of({}, k) = {}
  BY DEF Of
<1> QED
  BY <1>1, FS_EmptySet DEF Wanted

(* A new listener counts one on its own key if that is mirrored at all.    *)
LEMMA WantedAdd ==
  ASSUME NEW S \in SUBSET Listener, NEW l \in Listener, l \notin S, NEW k \in Key
  PROVE  Wanted(S \cup {l}, k) =
           IF l \in Mirrorable /\ k = KeyOf[l] /\ k \notin Skip
             THEN Wanted(S, k) + 1 ELSE Wanted(S, k)
<1>1. CASE l \in Mirrorable /\ k = KeyOf[l]
  <2>1. Of(S \cup {l}, k) = Of(S, k) \cup {l} /\ l \notin Of(S, k)
    BY <1>1 DEF Of
  <2>2. Cardinality(Of(S, k) \cup {l}) = Cardinality(Of(S, k)) + 1
    BY <2>1, OfFinite, FS_AddElement
  <2> QED
    BY <1>1, <2>1, <2>2 DEF Wanted
<1>2. CASE ~(l \in Mirrorable /\ k = KeyOf[l])
  <2>1. Of(S \cup {l}, k) = Of(S, k)
    BY <1>2 DEF Of
  <2> QED
    BY <1>2, <2>1 DEF Wanted
<1> QED
  BY <1>1, <1>2

(* A listener that goes takes one off.                                     *)
LEMMA WantedDel ==
  ASSUME NEW S \in SUBSET Listener, NEW l \in S, NEW k \in Key
  PROVE  Wanted(S, k) =
           IF l \in Mirrorable /\ k = KeyOf[l] /\ k \notin Skip
             THEN Wanted(S \ {l}, k) + 1 ELSE Wanted(S \ {l}, k)
<1>1. (S \ {l}) \cup {l} = S /\ S \ {l} \in SUBSET Listener
      /\ l \notin S \ {l} /\ l \in Listener
  OBVIOUS
<1> QED
  BY <1>1, WantedAdd

-----------------------------------------------------------------------------

(* An entry is not None, and its fields have their types.                  *)
LEMMA EntryFields ==
  ASSUME NEW e \in Entry
  PROVE  /\ e # None
         /\ e.id \in Id \cup {None} /\ e.refs \in Nat /\ e.pending \in BOOLEAN
<1>1. e # None
  BY NoneAssumption DEF Entry
<1>2. e.id \in Id \cup {None} /\ e.refs \in Nat /\ e.pending \in BOOLEAN
  BY DEF Entry
<1> QED
  BY <1>1, <1>2

(* openLocked leaves an adopted entry with the given count.                *)
LEMMA FreshShape ==
  ASSUME NEW n \in Nat
  PROVE  Fresh(n) \in Entry /\ Fresh(n).pending = FALSE /\ Fresh(n).refs = n
  BY DEF Fresh, Entry

(* add leaves an entry that is not pending and counts one more at most.    *)
LEMMA CountedShape ==
  ASSUME NEW e \in Entry, NEW n \in Nat, ~e.pending => e.refs \in 1..n
  PROVE  Counted(e) \in Entry /\ ~Counted(e).pending /\ Counted(e).refs \in 1..(n + 1)
<1>1. CASE e.pending
  <2>1. Counted(e) = [e EXCEPT !.pending = FALSE, !.refs = 1]
    BY <1>1 DEF Counted
  <2>2. Counted(e) \in Entry /\ Counted(e).pending = FALSE /\ Counted(e).refs = 1
    <3>1. /\ [e EXCEPT !.pending = FALSE, !.refs = 1] \in Entry
          /\ [e EXCEPT !.pending = FALSE, !.refs = 1].pending = FALSE
          /\ [e EXCEPT !.pending = FALSE, !.refs = 1].refs = 1
      BY DEF Entry
    <3> QED
      BY <2>1, <3>1
  <2>3. 1 \in 1..(n + 1)
    OBVIOUS
  <2> QED
    BY <2>2, <2>3
<1>2. CASE ~e.pending
  <2>1. Counted(e) = [e EXCEPT !.refs = e.refs + 1] /\ e.refs + 1 \in Nat
    BY <1>2, EntryFields DEF Counted
  <2>2. /\ [e EXCEPT !.refs = e.refs + 1] \in Entry
        /\ [e EXCEPT !.refs = e.refs + 1].refs = e.refs + 1
        /\ [e EXCEPT !.refs = e.refs + 1].pending = e.pending
    BY <2>1, EntryFields DEF Entry
  <2>3. Counted(e) \in Entry /\ Counted(e).refs = e.refs + 1
        /\ Counted(e).pending = e.pending
    BY <2>1, <2>2
  <2>4. e.refs \in 1..n
    BY <1>2
  <2>5. e.refs + 1 \in 1..(n + 1)
    BY <2>4
  <2> QED
    BY <1>2, <2>3, <2>5
<1> QED
  BY <1>1, <1>2

(* Adoption counts one, any other add one more.                            *)
LEMMA CountedRefs ==
  ASSUME NEW e \in Entry
  PROVE  Counted(e).refs = IF e.pending THEN 1 ELSE e.refs + 1
<1>1. /\ [e EXCEPT !.pending = FALSE, !.refs = 1].refs = 1
      /\ [e EXCEPT !.refs = @ + 1].refs = e.refs + 1
  BY DEF Entry
<1> QED
  BY <1>1 DEF Counted

(* del keeps a reservation, and takes one off any other entry.             *)
LEMMA UncountedShape ==
  ASSUME NEW e \in Entry
  PROVE  /\ Uncounted(e) \in Entry \cup {None}
         /\ e.pending => Uncounted(e) = e
         /\ ~e.pending /\ e.refs <= 1 => Uncounted(e) = None
         /\ ~e.pending /\ e.refs > 1 =>
              /\ Uncounted(e) \in Entry /\ ~Uncounted(e).pending
              /\ Uncounted(e).refs = e.refs - 1
<1>1. CASE e.pending \/ e.refs <= 1
  BY <1>1, EntryFields DEF Uncounted
<1>2. CASE ~e.pending /\ e.refs > 1
  <2>1. Uncounted(e) = [e EXCEPT !.refs = e.refs - 1] /\ e.refs - 1 \in Nat
    BY <1>2, EntryFields DEF Uncounted
  <2>2. /\ [e EXCEPT !.refs = e.refs - 1] \in Entry
        /\ [e EXCEPT !.refs = e.refs - 1].refs = e.refs - 1
        /\ [e EXCEPT !.refs = e.refs - 1].pending = e.pending
    BY <2>1, EntryFields DEF Entry
  <2> QED
    BY <1>2, <2>1, <2>2, EntryFields
<1> QED
  BY <1>1, <1>2, EntryFields

(* What reconcile leaves of entry e (or None) of a key that the snapshot   *)
(* has n listeners of and whose port can be opened or not.                 *)
IsReconciled(e, n, opens, r) ==
  r = IF e # None
        THEN IF n = 0 THEN Unwanted(e)
                      ELSE [e EXCEPT !.pending = FALSE, !.refs = n]
        ELSE IF n > 0 /\ opens THEN Fresh(n) ELSE None

Shape(e, n, opens, r) ==
  /\ r \in Entry \cup {None}
  /\ r # None /\ ~r.pending => r.refs = n /\ n > 0
  /\ r # None /\ r.pending => e # None /\ e.pending /\ n = 0 /\ r = e
  /\ e # None /\ e.pending /\ n = 0 => r = e
  /\ r # None => n > 0 \/ e # None
  /\ r # None => e # None \/ (opens /\ n > 0)
  /\ n > 0 /\ (e # None \/ opens) => r # None

(* The shape of what reconcile leaves follows from its definition.         *)
LEMMA ReconciledShape ==
  ASSUME NEW e \in Entry \cup {None}, NEW n \in Nat, NEW opens \in BOOLEAN, NEW r,
         IsReconciled(e, n, opens, r)
  PROVE  Shape(e, n, opens, r)
<1> USE DEF IsReconciled, Shape
<1>1. CASE e # None /\ n = 0
  <2>1. r = IF e.pending THEN e ELSE None
    BY <1>1 DEF Unwanted
  <2>2. CASE e.pending
    <3>1. r = e
      BY <2>1, <2>2
    <3> QED
      BY <1>1, <2>2, <3>1
  <2>3. CASE ~e.pending
    <3>1. r = None
      BY <2>1, <2>3
    <3> QED
      BY <1>1, <2>3, <3>1
  <2> QED
    BY <2>2, <2>3
<1>2. CASE e # None /\ n # 0
  <2>1. r \in Entry /\ r.pending = FALSE /\ r.refs = n
    <3>1. r = [e EXCEPT !.pending = FALSE, !.refs = n] /\ e \in Entry
      BY <1>2
    <3> QED
      BY <3>1 DEF Entry
  <2> QED
    BY <1>2, <2>1, EntryFields
<1>3. CASE e = None /\ n > 0 /\ opens
  <2>1. r \in Entry /\ r.pending = FALSE /\ r.refs = n
    BY <1>3, FreshShape
  <2> QED
    BY <1>3, <2>1, EntryFields
<1>4. CASE e = None /\ ~(n > 0 /\ opens)
  BY <1>4
<1> QED
  BY <1>1, <1>2, <1>3, <1>4

(* The initial states satisfy the inductive invariant.                     *)
LEMMA InitIInv == Init => IInv
<1> SUFFICES ASSUME Init PROVE IInv
  OBVIOUS
<1>1. TypeOK
  BY DEF Init, TypeOK, FeedInit, FeedTypeOK
<1> QED
  BY <1>1, SubsetAssumption DEF Init, IInv, FeedInit, NoPhantomMirror,
     ExactMirrors, OwnReservationHeld, HealedForgotten, Bound, Pending

(* Every step keeps the inductive invariant.                               *)
LEMMA StepIInv == IInv /\ [Next]_vars => IInv'
<1> SUFFICES ASSUME IInv, [Next]_vars PROVE IInv'
  OBVIOUS
<1> USE SubsetAssumption, KeyAssumption, NoneAssumption
<1>w. /\ \A S \in SUBSET Listener, k \in Key :
           Wanted(S, k) \in Nat /\ (k \in Skip => Wanted(S, k) = 0)
      /\ \A k \in Key : Wanted({}, k) = 0
      /\ \A S \in SUBSET Listener, l \in Listener, k \in Key : l \notin S =>
           Wanted(S \cup {l}, k) =
             IF l \in Mirrorable /\ k = KeyOf[l] /\ k \notin Skip
               THEN Wanted(S, k) + 1 ELSE Wanted(S, k)
      /\ \A S \in SUBSET Listener, k \in Key : \A l \in S :
           Wanted(S, k) =
             IF l \in Mirrorable /\ k = KeyOf[l] /\ k \notin Skip
               THEN Wanted(S \ {l}, k) + 1 ELSE Wanted(S \ {l}, k)
  BY WantedType, WantedEmpty, WantedAdd, WantedDel
<1> USE DEF IInv, TypeOK, FeedTypeOK, NoPhantomMirror, ExactMirrors, OwnReservationHeld,
            HealedForgotten, Bound, Pending, Entry, Observed, Fresh
<1>t. ASSUME NEW k \in Key, Bound(k)
      PROVE  /\ mirrors[k] \in Entry
             /\ mirrors[k].id \in Id \cup {None} /\ mirrors[k].refs \in Nat
             /\ mirrors[k].pending \in BOOLEAN
  BY <1>t
<1>1. ASSUME NEW S \in SUBSET Listener, OnSnapshot(S) PROVE IInv'
  <2> DEFINE missing == {k \in Key : ~Bound(k) /\ Wanted(S, k) > 0}
             opened(n) == {k \in missing : Opens(k, n)}
  <2>0. PICK n \in Meanwhile(missing) :
          /\ mirrors' = [k \in Key |-> Reconciled(S, k, n)]
          /\ obs' = Observed(opened(n), missing \ opened(n), {k \in Skip : Of(S, k) # {}})
          /\ promised' = {p \in promised : Wanted(S, p[1]) = 0}
          /\ lost' = lost \cap promised'
          /\ joined' = {k \in joined : Wanted(S, k) = 0}
          /\ denied' = missing \ opened(n)
          /\ native' = n
          /\ UNCHANGED <<timers, blind>>
    BY <1>1 DEF OnSnapshot, Reconcile
  <2>1. /\ view' = S /\ up' = TRUE /\ timers' = timers
        /\ native' \in [Key -> SUBSET Hows] /\ blind' = blind
        /\ promised' = {p \in promised : Wanted(S, p[1]) = 0}
        /\ lost' = lost \cap promised' /\ joined' \in SUBSET Key
        /\ mirrors' = [k \in Key |-> Reconciled(S, k, n)]
        /\ denied' = {k \in Key : ~Bound(k) /\ Wanted(S, k) > 0 /\ ~Opens(k, n)}
    BY <1>1, <2>0 DEF OnSnapshot, FeedSnapshot, Meanwhile
  <2>2. \A k \in Key : Wanted(S, k) \in Nat /\ (k \in Skip => Wanted(S, k) = 0)
    BY <1>w
  <2>4. ASSUME NEW k \in Key
        PROVE  /\ Reconciled(S, k, n) \in Entry \cup {None}
               /\ Reconciled(S, k, n) # None => k \notin Skip
               /\ Reconciled(S, k, n) # None /\ ~Reconciled(S, k, n).pending
                    => Reconciled(S, k, n).refs \in 1..Wanted(S, k)
               /\ Reconciled(S, k, n) # None /\ Reconciled(S, k, n).pending
                    => Pending(k) /\ Wanted(S, k) = 0 /\ Reconciled(S, k, n) = mirrors[k]
               /\ Pending(k) /\ Wanted(S, k) = 0 => Reconciled(S, k, n) = mirrors[k]
               /\ Reconciled(S, k, n) # None => Bound(k) \/ (Opens(k, n) /\ Wanted(S, k) > 0)
               /\ Reconciled(S, k, n) # None /\ ~Reconciled(S, k, n).pending
                    => Reconciled(S, k, n).refs = Wanted(S, k)
               /\ Wanted(S, k) > 0 /\ (Bound(k) \/ Opens(k, n))
                    => Reconciled(S, k, n) # None
    <3> DEFINE e == mirrors[k]
               w == Wanted(S, k)
               opens == Opens(k, n)
               r == Reconciled(S, k, n)
    <3>1. e \in Entry \cup {None} /\ w \in Nat /\ opens \in BOOLEAN
      BY <2>2 DEF Opens, MacHeld, BindOK
    <3>2. IsReconciled(e, w, opens, r)
      BY DEF Reconciled, IsReconciled
    <3> HIDE DEF e, w, opens, r
    <3>3. Shape(e, w, opens, r)
      BY <3>1, <3>2, ReconciledShape
    <3>4. (k \in Skip => w = 0 /\ e = None) /\ (w > 0 => w \in 1..w)
      BY <2>2, <3>1 DEF w, e, IInv
    <3> QED
      BY <3>3, <3>4 DEF e, w, opens, r, Shape
  <2>5. obs' \in [Key -> {"none", "skipped", "bind-failed"}]
        /\ \A k \in Key : Reconciled(S, k, n) # None => obs'[k] = "none"
    BY <2>0, <2>2, <2>4
  <2> HIDE DEF missing, opened
  <2> USE <2>1
  <2>6. TypeOK'
    BY <2>4, <2>5
  <2>7. NoPhantomMirror'
    BY <2>4 DEF Wanted, Of
  <2>8. HealedForgotten'
    BY <2>5
  <2>9. (lost \subseteq promised /\ promised \subseteq timers)'
    OBVIOUS
  <2>10. OwnReservationHeld'
    BY <2>4
  <2>11. (\A k \in Skip : ~Bound(k))'
    BY <2>4
  <2>12. (\A k \in Key : Pending(k) => <<k, mirrors[k].id>> \in promised \ lost)'
    BY <2>4
  <2>13. ExactMirrors'
    BY <2>2, <2>4 DEF Wanted, Of
  <2> QED
    BY <2>6, <2>7, <2>8, <2>9, <2>10, <2>11, <2>12, <2>13
<1>2. ASSUME NEW l \in Listener, OnAddBound(l) PROVE IInv'
  <2> DEFINE k == KeyOf[l]
             e == mirrors[k]
  <2>1. /\ k \in Key /\ k \notin Skip /\ l \in Mirrorable /\ Bound(k)
        /\ view' = view \cup {l} /\ l \notin view /\ up' = up /\ up
        /\ mirrors' = [mirrors EXCEPT ![k] = Counted(e)]
        /\ promised' = {p \in promised : p[1] # k}
        /\ lost' = lost \cap promised' /\ joined' = joined \ {k}
        /\ UNCHANGED <<timers, obs, native, blind, denied>>
    BY <1>2 DEF OnAddBound, FeedAdd
  <2>2. /\ Wanted(view', k) = Wanted(view, k) + 1 /\ Wanted(view, k) \in Nat
        /\ \A j \in Key \ {k} : Wanted(view', j) = Wanted(view, j)
    BY <1>w, <2>1
  <2>3. e \in Entry /\ e # None /\ (~e.pending => e.refs \in 1..Wanted(view, k))
    BY <2>1
  <2> HIDE DEF e
  <2>4. /\ Counted(e) \in Entry /\ ~Counted(e).pending
        /\ Counted(e).refs \in 1..Wanted(view', k)
    BY <2>2, <2>3, CountedShape
  <2>5. /\ mirrors'[k] = Counted(e)
        /\ \A j \in Key \ {k} : mirrors'[j] = mirrors[j]
    BY <2>1
  <2> HIDE DEF k
  <2> USE <2>1
  <2>6. TypeOK'
    BY <2>4
  <2>7. NoPhantomMirror'
    <3>1. ASSUME NEW j \in Key, mirrors'[j] # None, ~mirrors'[j].pending
          PROVE  mirrors'[j].refs \in 1..Wanted(view', j)
      BY <2>2, <2>4, <2>5, <3>1
    <3> QED
      BY <3>1 DEF Wanted, Of
  <2>8. HealedForgotten'
    BY <2>4, <2>5
  <2>9. OwnReservationHeld'
    BY <2>4, <2>5
  <2>10. (\A j \in Key : Pending(j) => <<j, mirrors[j].id>> \in promised \ lost)'
    BY <2>4, <2>5
  <2>11. (\A j \in Skip : ~Bound(j))'
    BY <2>5
  <2>12. ExactMirrors'
    <3>1. k \notin denied =>
            (e.pending => Wanted(view, k) = 0) /\ (~e.pending => e.refs = Wanted(view, k))
      BY <2>2, <2>3 DEF e
    <3>2. Counted(e).refs = IF e.pending THEN 1 ELSE e.refs + 1
      BY <2>3, CountedRefs
    <3>3. k \notin denied => Counted(e).refs = Wanted(view', k)
      BY <2>2, <3>1, <3>2
    <3>4. ASSUME NEW j \in Key \ denied
          PROVE  IF mirrors'[j] # None /\ ~mirrors'[j].pending
                   THEN mirrors'[j].refs = Wanted(view', j)
                   ELSE Wanted(view', j) = 0
      <4>1. CASE j = k
        BY <2>4, <2>5, <3>3, <4>1, EntryFields
      <4>2. CASE j # k
        <5>1. mirrors'[j] = mirrors[j] /\ Wanted(view', j) = Wanted(view, j)
          BY <2>2, <2>5, <4>2
        <5> QED
          BY <5>1
      <4> QED
        BY <4>1, <4>2
    <3> QED
      BY <3>4 DEF Wanted, Of
  <2> QED
    BY <2>6, <2>7, <2>8, <2>9, <2>10, <2>11, <2>12
<1>3. ASSUME NEW l \in Listener, OnAddOpen(l) PROVE IInv'
  <2> DEFINE k == KeyOf[l]
  <2>0. PICK n \in Meanwhile({k}) :
          /\ mirrors' = [mirrors EXCEPT ![k] = IF Opens(k, n) THEN Fresh(1) ELSE None]
          /\ obs' = IF Opens(k, n) THEN Observed({k}, {}, {}) ELSE Observed({}, {k}, {})
          /\ denied' = (IF Opens(k, n) THEN denied ELSE denied \cup {k})
          /\ native' = n
    BY <1>3 DEF OnAddOpen
  <2> DEFINE r == IF Opens(k, n) THEN Fresh(1) ELSE None
  <2>1. /\ k \in Key /\ k \notin Skip /\ l \in Mirrorable /\ mirrors[k] = None
        /\ view' = view \cup {l} /\ l \notin view /\ up' = up /\ up
        /\ mirrors' = [mirrors EXCEPT ![k] = r]
        /\ denied' = (IF Opens(k, n) THEN denied ELSE denied \cup {k})
        /\ native' \in [Key -> SUBSET Hows] /\ joined' = joined \ {k}
        /\ UNCHANGED <<timers, blind, promised, lost>>
    BY <1>3, <2>0 DEF OnAddOpen, FeedAdd, Meanwhile
  <2>2. /\ Wanted(view', k) = Wanted(view, k) + 1 /\ Wanted(view, k) \in Nat
        /\ \A j \in Key \ {k} : Wanted(view', j) = Wanted(view, j)
    BY <1>w, <2>1
  <2>3. /\ r \in Entry \cup {None} /\ (r # None => Opens(k, n))
        /\ (Opens(k, n) => r \in Entry /\ r # None /\ ~r.pending /\ r.refs = 1)
    BY FreshShape, EntryFields
  <2>4. obs' \in [Key -> {"none", "skipped", "bind-failed"}]
        /\ (\A j \in Key \ {k} : obs'[j] = obs[j]) /\ (Opens(k, n) => obs'[k] = "none")
    BY <2>0, <2>1
  <2> HIDE DEF r, k
  <2>5. mirrors'[k] = r /\ \A j \in Key \ {k} : mirrors'[j] = mirrors[j]
    BY <2>1
  <2> USE <2>1
  <2>6. TypeOK'
    BY <2>3, <2>4
  <2>7. NoPhantomMirror'
    <3>1. ASSUME NEW j \in Key, mirrors'[j] # None, ~mirrors'[j].pending
          PROVE  mirrors'[j].refs \in 1..Wanted(view', j)
      <4>1. CASE j = k
        <5>1. mirrors'[j].refs = 1 /\ Wanted(view', j) \in Nat /\ Wanted(view', j) > 0
          BY <2>2, <2>3, <2>5, <3>1, <4>1
        <5> QED
          BY <5>1
      <4>2. CASE j # k
        <5>1. mirrors'[j] = mirrors[j] /\ Wanted(view', j) = Wanted(view, j)
          BY <2>2, <2>5, <4>2
        <5> QED
          BY <3>1, <5>1
      <4> QED
        BY <4>1, <4>2
    <3> QED
      BY <3>1 DEF Wanted, Of
  <2>8. HealedForgotten'
    BY <2>3, <2>4, <2>5
  <2>9. OwnReservationHeld'
    BY <2>5
  <2>10. (\A j \in Key : Pending(j) => <<j, mirrors[j].id>> \in promised \ lost)'
    BY <2>3, <2>5
  <2>11. (\A j \in Skip : ~Bound(j))'
    BY <2>5
  <2>12. ExactMirrors'
    <3>1. k \notin denied => Wanted(view, k) = 0
      OBVIOUS
    <3>2. ASSUME NEW j \in Key \ denied'
          PROVE  IF mirrors'[j] # None /\ ~mirrors'[j].pending
                   THEN mirrors'[j].refs = Wanted(view', j)
                   ELSE Wanted(view', j) = 0
      <4>1. CASE j = k
        <5>1. Opens(k, n) /\ k \notin denied
          BY <4>1
        <5>2. mirrors'[j] # None /\ ~mirrors'[j].pending /\ mirrors'[j].refs = 1
          BY <2>3, <2>5, <4>1, <5>1
        <5>3. Wanted(view', j) = 1
          BY <2>2, <3>1, <4>1, <5>1
        <5> QED
          BY <5>2, <5>3
      <4>2. CASE j # k
        <5>1. mirrors'[j] = mirrors[j] /\ Wanted(view', j) = Wanted(view, j)
              /\ j \notin denied
          BY <2>2, <2>5, <4>2
        <5> QED
          BY <5>1
      <4> QED
        BY <4>1, <4>2
    <3> QED
      BY <3>2 DEF Wanted, Of
  <2> QED
    BY <2>6, <2>7, <2>8, <2>9, <2>10, <2>11, <2>12
<1>4. ASSUME NEW l \in Listener, OnAddIgnored(l) PROVE IInv'
  BY <1>w, <1>4 DEF OnAddIgnored, FeedAdd
<1>5. ASSUME NEW l \in Listener, OnDel(l) PROVE IInv'
  <2> DEFINE k == KeyOf[l]
             e == mirrors[k]
  <2>1. /\ k \in Key /\ view' = view \ {l} /\ l \in view /\ up' = up /\ up
        /\ mirrors' = (IF l \in Mirrorable /\ mirrors[k] # None
                         THEN [mirrors EXCEPT ![k] = Uncounted(e)] ELSE mirrors)
        /\ UNCHANGED <<timers, obs, native, blind, promised, lost, joined, denied>>
    BY <1>5 DEF OnDel, FeedDel
  <2>2. \A j \in Key :
          /\ Wanted(view', j) \in Nat
          /\ Wanted(view, j) = IF l \in Mirrorable /\ j = k /\ j \notin Skip
                                THEN Wanted(view', j) + 1 ELSE Wanted(view', j)
    BY <1>w, <2>1
  <2> USE <2>1
  <2>3. CASE ~(l \in Mirrorable /\ mirrors[k] # None)
    <3>1. ASSUME NEW j \in Key, mirrors[j] # None
          PROVE  Wanted(view', j) = Wanted(view, j)
      BY <2>2, <2>3, <3>1
    <3>2. ASSUME NEW j \in Key, Wanted(view, j) = 0 PROVE Wanted(view', j) = 0
      <4>1. /\ Wanted(view', j) \in Nat
            /\ Wanted(view, j) = Wanted(view', j) + 1
                 \/ Wanted(view, j) = Wanted(view', j)
        BY <2>2
      <4> HIDE <2>1
      <4> QED
        BY <4>1, <3>2
    <3>3. NoPhantomMirror' /\ ExactMirrors'
      BY <2>3, <3>1, <3>2 DEF Wanted, Of
    <3> QED
      BY <2>3, <3>3
  <2>4. CASE l \in Mirrorable /\ mirrors[k] # None
    <3>1. e \in Entry /\ k \notin Skip
      BY <2>4
    <3>2. /\ mirrors'[k] = Uncounted(e)
          /\ \A j \in Key \ {k} : mirrors'[j] = mirrors[j]
      BY <2>4
    <3>3. /\ Wanted(view, k) = Wanted(view', k) + 1 /\ Wanted(view', k) \in Nat
          /\ \A j \in Key \ {k} : Wanted(view', j) = Wanted(view, j)
      BY <2>2, <2>4, <3>1
    <3>4. /\ Uncounted(e) \in Entry \cup {None}
          /\ e.pending => Uncounted(e) = e
          /\ ~e.pending /\ e.refs <= 1 => Uncounted(e) = None
          /\ ~e.pending /\ e.refs > 1 =>
               /\ Uncounted(e) \in Entry /\ Uncounted(e) # None
               /\ ~Uncounted(e).pending /\ Uncounted(e).refs = e.refs - 1
      BY <3>1, UncountedShape, EntryFields
    <3>5. /\ ~e.pending => e.refs \in 1..Wanted(view, k)
          /\ k \notin denied => ~e.pending /\ e.refs = Wanted(view, k)
          /\ e.pending \in BOOLEAN /\ e.refs \in Nat
      BY <2>4, <3>1, <3>3
    <3>6. TypeOK'
      BY <2>4, <3>4
    <3> HIDE DEF k, e
    <3>7. ASSUME NEW j \in Key, mirrors'[j] # None, ~mirrors'[j].pending
          PROVE  mirrors'[j].refs \in 1..Wanted(view', j)
      <4>1. CASE j = k
        BY <3>2, <3>3, <3>4, <3>5, <3>7, <4>1
      <4>2. CASE j # k
        BY <3>2, <3>3, <3>7, <4>2
      <4> QED
        BY <4>1, <4>2
    <3>8. ASSUME NEW j \in Key \ denied
          PROVE  IF mirrors'[j] # None /\ ~mirrors'[j].pending
                   THEN mirrors'[j].refs = Wanted(view', j)
                   ELSE Wanted(view', j) = 0
      <4>1. CASE j = k
        BY <3>2, <3>3, <3>4, <3>5, <4>1
      <4>2. CASE j # k
        BY <3>2, <3>3, <4>2
      <4> QED
        BY <4>1, <4>2
    <3>9. NoPhantomMirror' /\ ExactMirrors'
      BY <3>7, <3>8 DEF Wanted, Of
    <3>10. \A j \in Key : /\ Pending(j) => mirrors'[j] = mirrors[j]
                          /\ Pending(j)' => mirrors'[j] = mirrors[j]
                          /\ Bound(j)' => Bound(j)
      BY <2>4, <3>2, <3>4 DEF e
    <3>11. OwnReservationHeld' /\ HealedForgotten' /\ (\A j \in Skip : ~Bound(j))'
      BY <3>10
    <3>12. (\A j \in Key : Pending(j) => <<j, mirrors[j].id>> \in promised \ lost)'
      BY <3>10
    <3> QED
      BY <3>6, <3>9, <3>11, <3>12
  <2> QED
    BY <2>3, <2>4
<1>6. ASSUME OnDrop PROVE IInv'
  BY <1>w, <1>6 DEF OnDrop, FeedDrop
<1>7. ASSUME NEW k \in Key, ReserveSkipped(k) PROVE IInv'
  BY <1>7 DEF ReserveSkipped
<1>8. ASSUME NEW k \in Key, NEW i \in Id, Reserve(k, i) PROVE IInv'
  <2> DEFINE e == [id |-> i, refs |-> 0, pending |-> TRUE]
  <2>1. /\ k \notin Skip /\ ~Bound(k) /\ \A j \in Key : <<j, i>> \notin timers
        /\ mirrors' = [mirrors EXCEPT ![k] = e]
        /\ obs' = [obs EXCEPT ![k] = "none"]
        /\ timers' = timers \cup {<<k, i>>}
        /\ promised' = promised \cup {<<k, i>>}
        /\ native' \in [Key -> SUBSET Hows]
        /\ UNCHANGED <<up, view, blind, lost, joined, denied>>
    BY <1>8 DEF Reserve, Meanwhile
  <2>2. e \in Entry /\ e # None /\ e.pending = TRUE /\ e.id = i
    <3>1. e \in Entry
      OBVIOUS
    <3> QED
      BY <3>1, EntryFields
  <2> HIDE DEF e
  <2> USE <2>1
  <2>3. mirrors'[k] = e /\ \A j \in Key \ {k} : mirrors'[j] = mirrors[j]
    OBVIOUS
  <2>4. TypeOK'
    BY <2>2
  <2>5. NoPhantomMirror'
    BY <2>2, <2>3 DEF Wanted, Of
  <2>6. HealedForgotten'
    BY <2>3
  <2>7. <<k, i>> \notin promised /\ <<k, i>> \notin lost
        /\ \A p \in promised \ lost : p[1] # k
    OBVIOUS
  <2>8. OwnReservationHeld'
    BY <2>2, <2>3, <2>7
  <2>9. (\A j \in Skip : ~Bound(j))'
    BY <2>3
  <2>10. (\A j \in Key : Pending(j) => <<j, mirrors[j].id>> \in promised \ lost)'
    BY <2>2, <2>3, <2>7
  <2>11. ExactMirrors'
    BY <2>2, <2>3 DEF Wanted, Of
  <2> QED
    BY <2>4, <2>5, <2>6, <2>8, <2>9, <2>10, <2>11
<1>9. ASSUME NEW k \in Key, NEW i \in Id, TimerFire(k, i) PROVE IInv'
  BY <1>9 DEF TimerFire, Releases
<1>10. ASSUME NEW k \in Key, NEW how \in Hows, NativeOpen(k, how) \/ NativeClose(k, how)
       PROVE  IInv'
  BY <1>10 DEF NativeOpen, NativeClose
<1>11. ASSUME Enumeration PROVE IInv'
  BY <1>11 DEF Enumeration
<1>12. ASSUME UNCHANGED vars PROVE IInv'
  BY <1>12 DEF vars
<1>13. ASSUME NEW k \in Key, ReserveBound(k) PROVE IInv'
  BY <1>13 DEF ReserveBound
<1> QED
  BY <1>1, <1>2, <1>3, <1>4, <1>5, <1>6, <1>7, <1>8, <1>9, <1>10, <1>11, <1>12, <1>13
  DEF Next, EventStep, ReserveStep, NativeStep, OnAdd
-----------------------------------------------------------------------------

(* The inductive invariant holds in every state of every behaviour.        *)
THEOREM Invariance == Spec => []IInv
  BY InitIInv, StepIInv, PTL DEF Spec

(* No mirror outlives the guest listeners it stands for, however events,   *)
(* reservations, timers and reconnects of the daemon interleave.           *)
THEOREM NoPhantom == Spec => []NoPhantomMirror
<1>1. IInv => NoPhantomMirror
  BY DEF IInv
<1> QED
  BY <1>1, Invariance, PTL

(* A port that could always be bound is mirrored exactly while the guest   *)
(* listens on it, with the exact count of its listeners.                   *)
THEOREM Exact == Spec => []ExactMirrors
<1>1. IInv => ExactMirrors
  BY DEF IInv
<1> QED
  BY <1>1, Invariance, PTL

(* While the event session lives, a reservation with an entry of its own   *)
(* is held until it is adopted or its own timer fires, and one that was    *)
(* acknowledged on an older entry at least while a listener of the port is *)
(* left or the earlier reservation runs (mirror.go handleReserve).         *)
THEOREM ReservationsHeld == Spec => []HeldWhileConnected
<1>1. IInv => HeldWhileConnected
  <2> SUFFICES ASSUME IInv PROVE JoinedReservationHeld
    BY DEF IInv, HeldWhileConnected
  <2> SUFFICES ASSUME NEW k \in joined \ denied, ~Bound(k)
               PROVE  /\ ~(Wanted(view, k) > 0)
                      /\ \A i \in Id : <<k, i>> \notin promised \ lost
    BY DEF JoinedReservationHeld
  <2>1. k \in Key
    BY DEF IInv, TypeOK
  <2>2. Wanted(view, k) = 0
    BY <2>1, WantedEmpty DEF IInv, ExactMirrors
  <2>3. \A i \in Id : <<k, i>> \notin promised \ lost
    BY DEF IInv, OwnReservationHeld, Pending
  <2> QED
    BY <2>2, <2>3
<1> QED
  BY <1>1, Invariance, PTL

(* Every reservation the table holds has a release timer running.          *)
THEOREM ReservationsTimed == Spec => []PendingHasTimer
<1>1. IInv => PendingHasTimer
  BY DEF IInv, PendingHasTimer
<1> QED
  BY <1>1, Invariance, PTL

(* A step that opens the mirror of a TCP port while the enumeration of the *)
(* Mac's listeners works opens it where the lookup saw no wildcard holder, *)
(* whatever Mac programs do between the lookup and net.Listen.             *)
THEOREM NoShadow == Spec => NoShadowOpen
<1> DEFINE Act == \A k \in Key \ Udp :
             ~blind /\ ~Bound(k) /\ mirrors'[k] # None => "wild" \notin native[k]
<1>1. IInv /\ [Next]_vars => [Act]_vars
  <2> SUFFICES ASSUME IInv, Next, NEW k \in Key \ Udp,
                      ~blind, ~Bound(k), mirrors'[k] # None
               PROVE  "wild" \notin native[k]
    OBVIOUS
  <2>1. mirrors \in [Key -> Entry \cup {None}] /\ k \in Key
    BY DEF IInv, TypeOK
  <2> USE <2>1, KeyAssumption
  <2>2. ASSUME NEW S \in SUBSET Listener, OnSnapshot(S) PROVE ~MacHeld(k)
    BY <2>2 DEF OnSnapshot, Reconcile, Reconciled, Opens, Bound
  <2>3. ASSUME NEW l \in Listener, OnAdd(l) PROVE ~MacHeld(k)
    BY <2>3 DEF OnAdd, OnAddBound, OnAddOpen, OnAddIgnored, Opens, Bound
  <2>4. ASSUME NEW l \in Listener, OnDel(l) PROVE FALSE
    BY <2>4 DEF OnDel, Bound
  <2>5. ASSUME OnDrop PROVE FALSE
    BY <2>5 DEF OnDrop, Bound
  <2>6. ASSUME NEW j \in Key, NEW i \in Id,
               ReserveSkipped(j) \/ Reserve(j, i) \/ TimerFire(j, i)
        PROVE  ~MacHeld(k)
    BY <2>6 DEF ReserveSkipped, Reserve, TimerFire, Opens, Bound
  <2>7. ASSUME NEW j \in Key, ReserveSkipped(j) \/ ReserveBound(j) PROVE FALSE
    BY <2>7 DEF ReserveSkipped, ReserveBound, Bound
  <2>8. ASSUME NativeStep PROVE FALSE
    BY <2>8 DEF NativeStep, NativeOpen, NativeClose, Enumeration, Bound
  <2>9. ~MacHeld(k)
    BY <2>2, <2>3, <2>4, <2>5, <2>6, <2>7, <2>8
    DEF Next, EventStep, ReserveStep
  <2> QED
    BY <2>9 DEF MacHeld
<1> QED
  BY <1>1, Invariance, PTL DEF Spec, NoShadowOpen

-----------------------------------------------------------------------------
(* From end to end. *)

(* With every event delivered, the client's view is the hub's set, which   *)
(* is what the guest listens on; so the table, exact for the view, is      *)
(* exact for the guest.                                                    *)
LEMMA SettledExact ==
  T!HubInStep /\ H!IInv /\ ExactMirrors => MirrorsTheGuest
<1> SUFFICES ASSUME T!HubInStep, H!IInv, ExactMirrors, Settled,
                    NEW k \in Key \ denied, \A l \in leaky \cup dropped : KeyOf[l] # k
             PROVE  IF Bound(k) /\ ~mirrors[k].pending
                      THEN mirrors[k].refs = Wanted(Served, k)
                      ELSE Wanted(Served, k) = 0
  BY DEF MirrorsTheGuest
<1>1. client \in live /\ H!SnapshotFirst(client) /\ H!ClientQueue(client)
  BY DEF Settled, H!IInv
<1>2. up
  BY <1>1 DEF Settled, H!SnapshotFirst
<1>3. view = hub \ Noise /\ view \in SUBSET Listener
  <2>0. view \in SUBSET Listener
    BY DEF H!IInv, H!TypeOK
  <2>1. H!Leads(<<>>, view, hub \ Noise)
    BY <1>1 DEF Settled, H!ClientQueue
  <2>2. Len(<<>>) = 0
    OBVIOUS
  <2> QED
    BY <2>0, <2>1, <2>2 DEF H!Leads
<1>4. Of(view, k) = Of(Served, k)
  <2>1. \A l \in Listener : KeyOf[l] = k => (l \in hub <=> T!Open(l) # {})
    BY DEF Settled, T!HubInStep
  <2> QED
    BY <1>3, <2>1 DEF Of, Served
<1> QED
  BY <1>2, <1>4 DEF ExactMirrors, Wanted

(* For any sockets, listeners, sessions and reservations: once the guest's *)
(* changes have passed the tracker, the ring, the hub and the session, the *)
(* Mac mirrors exactly the ports the guest listens on and counts their     *)
(* listeners, short of refused ports and of listeners the tracker may be   *)
(* wrong about (tracker.c, tracker.go, mirror.go).                         *)
THEOREM FollowsTheGuest ==
  ASSUME TrackerConstants, HubConstants
  PROVE  SystemSpec => []MirrorsTheGuest
<1>a. T!KeyAssumption /\ T!KindAssumption /\ T!NumberAssumption /\ T!AbsentAssumption
  BY DEF TrackerConstants, T!KeyAssumption, T!KindAssumption, T!NumberAssumption, T!AbsentAssumption
<1>b. H!NoiseAssumption /\ H!CapAssumption /\ H!NoneAssumption
  BY DEF HubConstants, H!NoiseAssumption, H!CapAssumption, H!NoneAssumption
<1>1. T!Spec => []T!HubInStep
  BY <1>a, T!HubKeepsStep, PTL
<1>2. H!Spec => []H!IInv
  BY <1>b, H!Invariance, PTL
<1>3. Spec => []ExactMirrors
  BY Exact, PTL
<1> QED
  BY <1>1, <1>2, <1>3, SettledExact, PTL DEF SystemSpec
=============================================================================
