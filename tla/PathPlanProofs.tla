--------------------------- MODULE PathPlanProofs ---------------------------
(***************************************************************************)
(* Proofs about PathPlan, for every set of positions and actions, every    *)
(* check sum, every width of Waypoint.Action and every number of rows and  *)
(* plans.                                                                  *)
(***************************************************************************)
EXTENDS PathPlan, SequenceTheorems, WellFoundedInduction, TLAPS

-----------------------------------------------------------------------------
(* The fold of modelToObjects, row by row.  It is defined over the sets of *)
(* positions; that the definition is sound, and then what it computes, is  *)
(* shown by a least counterexample.                                        *)
LEMMA LeastNat ==
  ASSUME NEW T, T \subseteq Nat, T # {}
  PROVE  \E x \in T : \A y \in T : x <= y
<1>1. OpToRel(<, Nat) = {ss \in Nat \X Nat : ss[1] < ss[2]}
  BY Zenon DEF OpToRel
<1>2. PICK x \in T : \A y \in T : ~ (<<y, x>> \in {ss \in Nat \X Nat : ss[1] < ss[2]})
  BY <1>1, NatLessThanWellFounded, WFMin, ZenonT(60)
<1>3. \A y \in T : ~ (y < x)
  BY <1>2
<1>. QED
  BY <1>3

LEMMA MaxIs ==
  ASSUME NEW s \in SUBSET Nat, NEW x \in s, \A y \in s : y <= x
  PROVE  Max(s) = x
<1>1. \A y \in s : (\A z \in s : y >= z) <=> y = x
  OBVIOUS
<1>. QED
  BY <1>1 DEF Max

Fold(rs, k, g) ==
  g = [s \in SUBSET (1 .. k) |-> IF s = {} THEN <<>> ELSE Add(g[s \ {Max(s)}], rs[Max(s)])]

LEMMA FoldExists ==
  ASSUME NEW rs, NEW k \in Nat
  PROVE  \E g : Fold(rs, k, g)
<1>. DEFINE Bad == {n \in Nat : ~\E g : Fold(rs, n, g)}
<1>1. Fold(rs, 0, [s \in {{}} |-> <<>>])
  <2>1. SUBSET (1 .. 0) = {{}}
    OBVIOUS
  <2>. QED
    BY <2>1 DEF Fold
<1>2. ASSUME NEW n \in Nat, n # 0, NEW g, Fold(rs, n - 1, g)
      PROVE  \E G : Fold(rs, n, G)
  <2>. DEFINE G == [s \in SUBSET (1 .. n) |-> IF n \in s THEN Add(g[s \ {n}], rs[n]) ELSE g[s]]
              H == [s \in SUBSET (1 .. n) |->
                      IF s = {} THEN <<>> ELSE Add(G[s \ {Max(s)}], rs[Max(s)])]
  <2>1. \A s \in SUBSET (1 .. n) : n \notin s => s \in SUBSET (1 .. n - 1)
    OBVIOUS
  <2>2. ASSUME NEW s \in SUBSET (1 .. n)
        PROVE  G[s] = H[s]
    <3>1. CASE n \in s
      <4>1. Max(s) = n
        BY <3>1, MaxIs
      <4>2. s \ {n} \in SUBSET (1 .. n) /\ n \notin s \ {n} /\ s # {}
        BY <3>1
      <4>3. G[s] = Add(g[s \ {n}], rs[n]) /\ G[s \ {n}] = g[s \ {n}]
        BY <3>1, <4>2
      <4>. QED
        BY <4>1, <4>2, <4>3
    <3>2. CASE n \notin s
      <4>1. s \in SUBSET (1 .. n - 1) /\ s \ {Max(s)} \in SUBSET (1 .. n - 1)
        BY <2>1, <3>2
      <4>2. g[s] = IF s = {} THEN <<>> ELSE Add(g[s \ {Max(s)}], rs[Max(s)])
        BY <1>2, <4>1 DEF Fold
      <4>3. G[s] = g[s] /\ G[s \ {Max(s)}] = g[s \ {Max(s)}]
        BY <3>2, <4>1
      <4>. QED
        BY <4>2, <4>3
    <3>. QED
      BY <3>1, <3>2
  <2>3. G = H
    BY <2>2
  <2>. HIDE DEF G
  <2>. QED
    BY <2>3 DEF Fold
<1>3. Bad = {}
  <2>. SUFFICES ASSUME Bad # {}
                PROVE  FALSE
    OBVIOUS
  <2>1. PICK n \in Bad : \A m \in Bad : n <= m
    BY LeastNat
  <2>2. n # 0
    BY <1>1, <2>1
  <2>3. n - 1 \in Nat /\ n - 1 \notin Bad
    BY <2>1, <2>2
  <2>. QED
    BY <1>2, <2>1, <2>2, <2>3
<1>. QED
  BY <1>3

(* modelToObjects takes the rows in order.                                 *)
LEMMA CompressedSteps ==
  ASSUME NEW rs \in Seq(Row)
  PROVE  \E a : /\ a[0] = <<>>
                /\ \A n \in 1 .. Len(rs) : a[n] = Add(a[n - 1], rs[n])
                /\ Compressed(rs) = a[Len(rs)]
<1>1. Len(rs) \in Nat /\ DOMAIN rs = 1 .. Len(rs)
  BY LenProperties
<1>. DEFINE acts == CHOOSE g : g = [s \in SUBSET DOMAIN rs |->
                      IF s = {} THEN <<>> ELSE Add(g[s \ {Max(s)}], rs[Max(s)])]
<1>2. Compressed(rs) = acts[DOMAIN rs]
  BY Zenon DEF Compressed, FoldLeft, MapThenFoldSet
<1>3. \E g : g = [s \in SUBSET DOMAIN rs |->
                    IF s = {} THEN <<>> ELSE Add(g[s \ {Max(s)}], rs[Max(s)])]
  <2>1. PICK g : Fold(rs, Len(rs), g)
    BY <1>1, FoldExists
  <2>2. SUBSET DOMAIN rs = SUBSET (1 .. Len(rs))
    BY <1>1
  <2>3. g = [s \in SUBSET (1 .. Len(rs)) |->
               IF s = {} THEN <<>> ELSE Add(g[s \ {Max(s)}], rs[Max(s)])]
    BY <2>1 DEF Fold
  <2>. QED
    BY <2>2, <2>3, Zenon
<1>4. acts = [s \in SUBSET DOMAIN rs |->
                IF s = {} THEN <<>> ELSE Add(acts[s \ {Max(s)}], rs[Max(s)])]
  BY <1>3, Zenon
<1>. HIDE DEF acts
<1>. DEFINE a == [n \in 0 .. Len(rs) |-> acts[1 .. n]]
<1>5. a[0] = <<>>
  <2>1. 1 .. 0 = {} /\ {} \in SUBSET DOMAIN rs
    OBVIOUS
  <2>. QED
    BY <1>1, <1>4, <2>1
<1>6. ASSUME NEW n \in 1 .. Len(rs)
      PROVE  a[n] = Add(a[n - 1], rs[n])
  <2>1. (1 .. n) \in SUBSET DOMAIN rs /\ 1 .. n # {} /\ (1 .. n) \ {n} = 1 .. n - 1
    <3>1. n \in Nat /\ n >= 1 /\ n <= Len(rs)
      BY <1>1
    <3>2. (1 .. n) \subseteq DOMAIN rs
      BY <1>1, <3>1
    <3>3. (1 .. n) \ {n} = 1 .. n - 1
      BY <3>1
    <3>4. n \in 1 .. n
      BY <3>1
    <3>. QED
      BY <3>2, <3>3, <3>4
  <2>2. Max(1 .. n) = n
    <3>1. n \in Nat /\ n >= 1
      BY <1>1
    <3>. QED
      BY <3>1, MaxIs
  <2>3. acts[1 .. n] = Add(acts[1 .. n - 1], rs[n])
    BY <1>4, <2>1, <2>2
  <2>. QED
    BY <1>1, <2>3
<1>7. Compressed(rs) = a[Len(rs)]
  BY <1>1, <1>2
<1>. QED
  BY <1>5, <1>6, <1>7

LEMMA AddKeeps ==
  ASSUME NEW actions \in Seq(Action), NEW r \in Row
  PROVE  /\ Add(actions, r) \in Seq(Action)
         /\ Len(Add(actions, r)) <= Len(actions) + 1
         /\ Found(Add(actions, r), r) # {}
         /\ \A q \in Row : Found(actions, q) # {} => Found(Add(actions, r), q) # {}
<1>1. Len(actions) \in Nat /\ DOMAIN actions = 1 .. Len(actions)
  BY LenProperties
<1>2. CASE Found(actions, r) # {}
  BY <1>1, <1>2 DEF Add
<1>3. CASE Found(actions, r) = {}
  <2>. DEFINE e == [key |-> r.key, rest |-> r.rest]
              b == Append(actions, e)
  <2>1. e \in Action
    BY DEF Row, Action
  <2>2. /\ b \in Seq(Action) /\ Len(b) = Len(actions) + 1
        /\ DOMAIN b = 1 .. Len(actions) + 1
        /\ \A i \in 1 .. Len(actions) : b[i] = actions[i]
        /\ b[Len(actions) + 1] = e
    BY <2>1, AppendProperties, LenProperties
  <2>3. Add(actions, r) = b
    BY <1>3 DEF Add
  <2>. HIDE DEF b
  <2>4. Len(actions) + 1 \in Found(b, r)
    BY <1>1, <2>2 DEF Found
  <2>5. \A q \in Row : Found(actions, q) \subseteq Found(b, q)
    BY <1>1, <2>2 DEF Found
  <2>. QED
    BY <1>1, <2>2, <2>3, <2>4, <2>5
<1>. QED
  BY <1>2, <1>3

(* What modelToObjects makes of the rows: at most one action for each row, *)
(* and one for every row.                                                  *)
LEMMA CompressedFacts ==
  ASSUME NEW rs \in Seq(Row)
  PROVE  /\ Compressed(rs) \in Seq(Action)
         /\ Len(Compressed(rs)) <= Len(rs)
         /\ \A i \in 1 .. Len(rs) : Found(Compressed(rs), rs[i]) # {}
<1>1. Len(rs) \in Nat /\ \A i \in 1 .. Len(rs) : rs[i] \in Row
  BY LenProperties, ElementOfSeq
<1>2. PICK a : /\ a[0] = <<>>
               /\ \A n \in 1 .. Len(rs) : a[n] = Add(a[n - 1], rs[n])
               /\ Compressed(rs) = a[Len(rs)]
  BY CompressedSteps
<1>. DEFINE Good(n) == /\ a[n] \in Seq(Action) /\ Len(a[n]) <= n
                       /\ \A i \in 1 .. n : Found(a[n], rs[i]) # {}
            Bad == {n \in 0 .. Len(rs) : ~Good(n)}
<1>3. Good(0)
  BY <1>2, EmptySeq
<1>4. ASSUME NEW n \in 1 .. Len(rs), Good(n - 1)
      PROVE  Good(n)
  <2>1. n - 1 \in Nat /\ rs[n] \in Row /\ \A i \in 1 .. n : i # n => i \in 1 .. n - 1 /\ rs[i] \in Row
    BY <1>1
  <2>2. a[n - 1] \in Seq(Action) /\ Len(a[n - 1]) \in Nat
    BY <1>4, LenProperties
  <2>3. /\ a[n] \in Seq(Action) /\ Len(a[n]) \in Nat
        /\ Len(a[n]) <= Len(a[n - 1]) + 1
        /\ Found(a[n], rs[n]) # {}
        /\ \A q \in Row : Found(a[n - 1], q) # {} => Found(a[n], q) # {}
    BY <1>2, <2>1, <2>2, AddKeeps, LenProperties
  <2>4. Len(a[n]) <= n
    BY <1>4, <2>1, <2>2, <2>3
  <2>5. ASSUME NEW i \in 1 .. n
        PROVE  Found(a[n], rs[i]) # {}
    <3>1. CASE i = n
      BY <2>3, <3>1
    <3>2. CASE i # n
      <4>1. Found(a[n - 1], rs[i]) # {} /\ rs[i] \in Row
        BY <1>4, <2>1, <3>2
      <4>. QED
        BY <2>3, <4>1
    <3>. QED
      BY <3>1, <3>2
  <2>. QED
    BY <2>3, <2>4, <2>5
<1>5. Bad = {}
  <2>. SUFFICES ASSUME Bad # {}
                PROVE  FALSE
    OBVIOUS
  <2>1. Bad \subseteq Nat
    BY <1>1
  <2>. HIDE DEF Good
  <2>2. PICK n \in Bad : \A m \in Bad : n <= m
    BY <2>1, LeastNat
  <2>3. n \in 1 .. Len(rs) /\ n - 1 \in 0 .. Len(rs) /\ n - 1 \notin Bad
    BY <1>1, <1>3, <2>2
  <2>. QED
    BY <1>4, <2>2, <2>3
<1>6. Good(Len(rs))
  <2>. HIDE DEF Good
  <2>. QED
    BY <1>1, <1>5
<1>. QED
  BY <1>2, <1>6

LEMMA WaypointFacts ==
  ASSUME NEW r \in Row, NEW actions \in Seq(Action), Found(actions, r) # {}
  PROVE  LET w == ToWaypoint(r, actions)
         IN  /\ w \in Waypoint /\ w.position = r.position
             /\ w.action + 1 \in 1 .. Len(actions)
             /\ Len(actions) <= ActionWidth => actions[w.action + 1].key = r.key
<1>. DEFINE i == CHOOSE j \in Found(actions, r) : TRUE
<1>1. i \in 1 .. Len(actions) /\ actions[i].key = r.key /\ Len(actions) \in Nat
  BY LenProperties DEF Found
<1>2. ActionWidth \in Nat \ {0}
  BY PlanAssumption
<1>. HIDE DEF i
<1>3. (i - 1) % ActionWidth \in 0 .. ActionWidth - 1 /\ (i - 1) % ActionWidth <= i - 1
  BY <1>1, <1>2
<1>4. Len(actions) <= ActionWidth => (i - 1) % ActionWidth = i - 1
  BY <1>1, <1>2
<1>5. ToWaypoint(r, actions) = [position |-> r.position, action |-> (i - 1) % ActionWidth]
  BY DEF ToWaypoint, i
<1>6. r.position \in Position
  BY DEF Row
<1>. QED
  BY <1>1, <1>2, <1>3, <1>4, <1>5, <1>6 DEF Waypoint

-----------------------------------------------------------------------------
(* The objects from have arrived at to as far as the first n.              *)
Copied(from, to, n) ==
  /\ n > 0 => to.plan = from.plan
  /\ \A i \in 1 .. from.plan.waypoints :
       i < n => /\ i <= Len(from.waypoints) /\ i <= Len(to.waypoints)
                /\ to.waypoints[i] = from.waypoints[i]
  /\ \A i \in 1 .. from.plan.actions :
       i + from.plan.waypoints < n => /\ i <= Len(from.actions) /\ i <= Len(to.actions)
                                      /\ to.actions[i] = from.actions[i]

(* An operation in progress has copied what came before its next object;   *)
(* what is sent is a whole plan.                                           *)
Transfer ==
  /\ op \in [type : {"idle", "send", "receive"}, next : Nat]
  /\ op.type = "idle" => op.next = 0
  /\ op.type = "send" => Consistent(gcs) /\ Copied(gcs, board, op.next)
  /\ op.type = "receive" => Copied(board, gcs, op.next)

(* A plan that was summed up fits into the editor.                         *)
Fits(plan) == Len(plan[1]) <= MaxRows

PlanInv == TypeOK /\ Transfer /\ RefusedOnlyIfTorn /\ \A p \in written : Fits(p)

(* Counts and check sum are those of a plan some modelToObjects summed up. *)
Vouched(plan) ==
  \E p \in written : /\ Len(p[1]) = plan.waypoints /\ Len(p[2]) = plan.actions
                     /\ plan.crc = Crc(p[1], p[2])

(* Either side only ever holds a PathPlan that was summed up as it is,     *)
(* although instances of several plans may lie around it.                  *)
SumsWritten == Vouched(gcs.plan) /\ Vouched(board.plan) /\ Vouched(Fresh.plan)

(* An operation in progress has no result yet.                             *)
NoResultYet == op.type # "idle" => result = "none"

WholeInv == SumsWritten /\ NoResultYet /\ ReceivedPlanIsVouched

\* The rows the exactness of findPathAction and of Waypoint.Action is enough for.
Exact == MaxRows <= ActionWidth /\ \A r, s \in Rest : r = s

SentInv == (op.type = "send" => Means(gcs, rows)) /\ SentPlanArrives

LEMMA PutKeeps ==
  ASSUME NEW S, NEW s \in Seq(S), NEW v \in S, NEW i \in Nat \ {0}
  PROVE  /\ Put(s, i, v) \in Seq(S) /\ Len(Put(s, i, v)) \in Nat
         /\ i <= Len(s) + 1 =>
              /\ Len(s) <= Len(Put(s, i, v)) /\ i <= Len(Put(s, i, v))
              /\ Put(s, i, v)[i] = v
              /\ \A j \in 1 .. Len(s) : j # i => Put(s, i, v)[j] = s[j]
<1>1. Len(s) \in Nat
  BY LenProperties
<1>2. CASE i > Len(s)
  <2>. DEFINE p == Append(s, v)
  <2>1. /\ p \in Seq(S) /\ Len(p) = Len(s) + 1
        /\ \A j \in 1 .. Len(s) : p[j] = s[j]
        /\ p[Len(s) + 1] = v
    BY AppendProperties
  <2>2. Put(s, i, v) = p
    BY <1>2 DEF Put
  <2>. HIDE DEF p
  <2>. QED
    BY <1>1, <1>2, <2>1, <2>2
<1>3. CASE ~(i > Len(s))
  <2>. DEFINE p == [s EXCEPT ![i] = v]
  <2>1. i \in 1 .. Len(s)
    BY <1>1, <1>3
  <2>2. /\ p \in Seq(S) /\ Len(p) = Len(s)
        /\ \A j \in 1 .. Len(s) : p[j] = IF j = i THEN v ELSE s[j]
    BY <2>1, ExceptSeq
  <2>3. Put(s, i, v) = p
    BY <1>3 DEF Put
  <2>. HIDE DEF p
  <2>. QED
    BY <1>1, <2>1, <2>2, <2>3
<1>. QED
  BY <1>2, <1>3

LEMMA PutWithin ==
  ASSUME NEW S, NEW s \in Seq(S), NEW v \in S, NEW i \in Nat \ {0}, i <= Len(s) + 1,
         NEW p, p = Put(s, i, v)
  PROVE  /\ p \in Seq(S) /\ Len(p) \in Nat
         /\ Len(s) <= Len(p) /\ i <= Len(p) /\ p[i] = v
         /\ \A j \in 1 .. Len(s) : j # i => p[j] = s[j]
BY PutKeeps

LEMMA ExtendedKeeps ==
  ASSUME NEW S, NEW s \in Seq(S), NEW v \in S, NEW n \in Nat
  PROVE  /\ Extended(s, n, v) \in Seq(S) /\ Len(Extended(s, n, v)) \in Nat
         /\ Len(s) <= Len(Extended(s, n, v))
         /\ \A j \in 1 .. Len(s) : Extended(s, n, v)[j] = s[j]
<1>. DEFINE t == [i \in 1 .. (n - Len(s)) |-> v]
<1>1. Len(s) \in Nat
  BY LenProperties
<1>2. t \in Seq(S)
  <2>1. CASE n - Len(s) \in Nat
    <3>1. t \in [1 .. (n - Len(s)) -> S]
      OBVIOUS
    <3>. QED
      BY <2>1, <3>1
  <2>2. CASE n - Len(s) \notin Nat
    <3>1. 1 .. (n - Len(s)) = 1 .. 0
      BY <1>1, <2>2
    <3>2. t \in [1 .. 0 -> S]
      BY <3>1
    <3>. QED
      BY <3>2
  <2>. QED
    BY <2>1, <2>2
<1>3. Extended(s, n, v) = s \o t
  BY DEF Extended
<1>. HIDE DEF t
<1>4. /\ s \o t \in Seq(S) /\ Len(s \o t) = Len(s) + Len(t)
      /\ \A j \in 1 .. Len(s) : (s \o t)[j] = s[j]
  BY <1>1, <1>2, LenProperties, ConcatProperties
<1>. QED
  BY <1>1, <1>2, <1>3, <1>4, LenProperties

LEMMA OverKeeps ==
  ASSUME NEW S, NEW old \in Seq(S), NEW new \in Seq(S)
  PROVE  /\ Over(old, new) \in Seq(S)
         /\ Len(new) <= Len(Over(old, new))
         /\ \A j \in 1 .. Len(new) : Over(old, new)[j] = new[j]
         /\ SubSeq(Over(old, new), 1, Len(new)) = new
<1>. DEFINE t == SubSeq(old, Len(new) + 1, Len(old))
            all == new \o t
<1>1. Len(old) \in Nat /\ Len(new) \in Nat
  BY LenProperties
<1>2. t \in Seq(S) /\ Len(t) \in Nat
  <2>1. \A i \in Len(new) + 1 .. Len(old) : old[i] \in S
    BY <1>1, ElementOfSeq
  <2>2. t \in Seq(S)
    BY <1>1, <2>1, SubSeqProperties
  <2>. QED
    BY <2>2, LenProperties
<1>3. Over(old, new) = all
  BY DEF Over
<1>. HIDE DEF t
<1>4. /\ all \in Seq(S) /\ Len(all) = Len(new) + Len(t)
      /\ \A j \in 1 .. Len(new) : all[j] = new[j]
  BY <1>1, <1>2, ConcatProperties
<1>. HIDE DEF all
<1>5. /\ SubSeq(all, 1, Len(new)) \in Seq(S)
      /\ Len(SubSeq(all, 1, Len(new))) = Len(new)
      /\ \A j \in 1 .. Len(new) : SubSeq(all, 1, Len(new))[j] = new[j]
  <2>1. \A j \in 1 .. Len(new) : all[j] \in S
    BY <1>4, ElementOfSeq
  <2>2. /\ SubSeq(all, 1, Len(new)) \in Seq(S)
        /\ Len(SubSeq(all, 1, Len(new))) = IF 1 <= Len(new) THEN Len(new) - 1 + 1 ELSE 0
        /\ \A j \in 1 .. Len(new) - 1 + 1 : SubSeq(all, 1, Len(new))[j] = all[1 + j - 1]
    BY <1>1, <2>1, SubSeqProperties
  <2>. QED
    BY <1>1, <1>4, <2>2
<1>6. SubSeq(all, 1, Len(new)) = new
  BY <1>1, <1>5, SeqEqual
<1>. QED
  BY <1>1, <1>2, <1>3, <1>4, <1>6

LEMMA SamePrefix ==
  ASSUME NEW S, NEW s \in Seq(S), NEW t \in Seq(S), NEW n \in Nat,
         \A i \in 1 .. n : i <= Len(s) /\ i <= Len(t) /\ s[i] = t[i]
  PROVE  SubSeq(s, 1, n) = SubSeq(t, 1, n)
<1>1. \A i \in 1 .. n : s[i] \in S /\ t[i] \in S
  BY LenProperties, ElementOfSeq
<1>2. /\ SubSeq(s, 1, n) \in Seq(S) /\ SubSeq(t, 1, n) \in Seq(S)
      /\ Len(SubSeq(s, 1, n)) = Len(SubSeq(t, 1, n))
      /\ Len(SubSeq(s, 1, n)) = n
      /\ \A i \in 1 .. n : SubSeq(s, 1, n)[i] = s[i] /\ SubSeq(t, 1, n)[i] = t[i]
  <2>1. n - 1 + 1 = n /\ \A i \in 1 .. n : 1 + i - 1 = i
    OBVIOUS
  <2>2. /\ SubSeq(s, 1, n) \in Seq(S)
        /\ Len(SubSeq(s, 1, n)) = IF 1 <= n THEN n - 1 + 1 ELSE 0
        /\ \A i \in 1 .. n - 1 + 1 : SubSeq(s, 1, n)[i] = s[1 + i - 1]
    BY <1>1, SubSeqProperties
  <2>3. /\ SubSeq(t, 1, n) \in Seq(S)
        /\ Len(SubSeq(t, 1, n)) = IF 1 <= n THEN n - 1 + 1 ELSE 0
        /\ \A i \in 1 .. n - 1 + 1 : SubSeq(t, 1, n)[i] = t[1 + i - 1]
    BY <1>1, SubSeqProperties
  <2>. QED
    BY <2>1, <2>2, <2>3
<1>. QED
  BY <1>2, SeqEqual

LEMMA ObjectsRecord ==
  ASSUME NEW o \in Objects
  PROVE  /\ o.waypoints \in Seq(Waypoint) /\ o.actions \in Seq(Action)
         /\ Len(o.waypoints) \in Nat /\ Len(o.actions) \in Nat
         /\ o.plan.waypoints \in Nat /\ o.plan.actions \in Nat
         /\ o.plan \in [waypoints : Nat, actions : Nat, crc : CrcValue]
         /\ o.plan.crc \in CrcValue
         /\ Final(o) = o.plan.waypoints + o.plan.actions /\ Final(o) \in Nat
BY LenProperties DEF Objects, Final

(* The transfer of one more object.                                        *)
LEMMA CopyKeeps ==
  ASSUME NEW from \in Objects, NEW to \in Objects, NEW W \in Nat, NEW n \in Nat,
         n > 0 => W = from.plan.waypoints /\ n <= Final(from),
         Copied(from, to, n), Has(from, W, n)
  PROVE  /\ Copy(from, to, W, n) \in Objects
         /\ Copied(from, Copy(from, to, W, n), n + 1)
<1>. DEFINE c == Copy(from, to, W, n)
            A == from.plan.actions
<1>1. /\ from.waypoints \in Seq(Waypoint) /\ from.actions \in Seq(Action)
      /\ Len(from.waypoints) \in Nat /\ Len(from.actions) \in Nat
      /\ from.plan.waypoints \in Nat /\ A \in Nat /\ Final(from) = from.plan.waypoints + A
      /\ from.plan \in [waypoints : Nat, actions : Nat, crc : CrcValue]
  BY ObjectsRecord
<1>2. /\ to.waypoints \in Seq(Waypoint) /\ to.actions \in Seq(Action)
      /\ Len(to.waypoints) \in Nat /\ Len(to.actions) \in Nat
      /\ to.plan \in [waypoints : Nat, actions : Nat, crc : CrcValue]
  BY ObjectsRecord
<1>3. to = [waypoints |-> to.waypoints, actions |-> to.actions, plan |-> to.plan]
  BY DEF Objects
<1>4. CASE n = 0
  <2>1. c = [waypoints |-> to.waypoints, actions |-> to.actions, plan |-> from.plan]
    BY <1>3, <1>4 DEF Copy
  <2>2. c \in Objects
    BY <1>1, <1>2, <2>1 DEF Objects
  <2>3. Copied(from, c, 1)
    BY <1>1, <2>1 DEF Copied
  <2>. QED
    BY <1>4, <2>2, <2>3
<1>5. CASE n # 0 /\ n <= W
  <2>1. /\ to.plan = from.plan /\ W = from.plan.waypoints /\ n \in 1 .. W
        /\ n <= Len(from.waypoints)
    BY <1>1, <1>5 DEF Copied, Has
  <2>2. n <= Len(to.waypoints) + 1
    <3>1. CASE n = 1
      BY <1>2, <3>1
    <3>2. CASE n # 1
      <4>1. n - 1 \in 1 .. from.plan.waypoints /\ n - 1 < n
        BY <2>1, <3>2
      <4>2. n - 1 <= Len(to.waypoints)
        BY <4>1 DEF Copied
      <4>. QED
        BY <1>2, <4>2
    <3>. QED
      BY <3>1, <3>2
  <2>3. from.waypoints[n] \in Waypoint /\ n \in Nat \ {0}
    BY <1>1, <1>5, <2>1, ElementOfSeq
  <2>4. PICK v \in Waypoint : v = from.waypoints[n]
    BY <2>3
  <2>5. PICK p : p = Put(to.waypoints, n, v)
    OBVIOUS
  <2>6. /\ p \in Seq(Waypoint) /\ Len(p) \in Nat
        /\ Len(to.waypoints) <= Len(p) /\ n <= Len(p) /\ p[n] = v
        /\ \A j \in 1 .. Len(to.waypoints) : j # n => p[j] = to.waypoints[j]
    <3>1. to.waypoints \in Seq(Waypoint)
      BY <1>2
    <3>. QED
      BY <2>2, <2>3, <2>5, <3>1, PutWithin
  <2>7. c = [waypoints |-> p, actions |-> to.actions, plan |-> to.plan]
    BY <1>3, <1>5, <2>4, <2>5 DEF Copy
  <2>8. c \in Objects
    BY <1>2, <2>6, <2>7 DEF Objects
  <2>9. ASSUME NEW i \in 1 .. from.plan.waypoints, i < n + 1
        PROVE  i <= Len(from.waypoints) /\ i <= Len(p) /\ p[i] = from.waypoints[i]
    <3>1. CASE i = n
      BY <2>1, <2>4, <2>6, <3>1
    <3>2. CASE i # n
      <4>1. i < n
        BY <2>9, <3>2
      <4>2. i <= Len(from.waypoints) /\ i <= Len(to.waypoints)
              /\ to.waypoints[i] = from.waypoints[i]
        BY <4>1 DEF Copied
      <4>3. i \in 1 .. Len(to.waypoints)
        BY <4>2
      <4>4. p[i] = to.waypoints[i]
        BY <2>6, <3>2, <4>3
      <4>5. i <= Len(p)
        BY <1>2, <2>6, <4>2
      <4>. QED
        BY <4>2, <4>4, <4>5
    <3>. QED
      BY <3>1, <3>2
  <2>10. \A i \in 1 .. from.plan.actions : ~(i + from.plan.waypoints < n + 1)
    BY <1>1, <1>5, <2>1
  <2>. QED
    BY <2>1, <2>7, <2>8, <2>9, <2>10 DEF Copied
<1>6. CASE n > W
  <2>1. W = from.plan.waypoints /\ n > 0 /\ n <= W + A
    BY <1>1, <1>6
  <2>2. PICK m \in Nat \ {0} : m = n - W
    BY <1>6
  <2>3. to.plan = from.plan /\ m \in 1 .. A /\ m <= Len(from.actions)
    <3>1. m \in 1 .. A
      BY <1>1, <2>1, <2>2
    <3>2. m <= Len(from.actions)
      BY <1>6, <2>1, <2>2 DEF Has
    <3>. QED
      BY <2>1, <3>1, <3>2 DEF Copied
  <2>4. m <= Len(to.actions) + 1
    <3>1. CASE m = 1
      BY <1>2, <3>1
    <3>2. CASE m # 1
      <4>1. (m - 1) + W < n /\ m - 1 \in 1 .. A
        <5>1. A \in Nat /\ m >= 1 /\ m <= A
          BY <1>1, <2>3
        <5>. HIDE DEF A
        <5>. QED
          BY <2>2, <3>2, <5>1
      <4>2. m - 1 <= Len(to.actions)
        BY <2>1, <4>1 DEF Copied
      <4>. QED
        BY <1>2, <2>2, <4>2
    <3>. QED
      BY <3>1, <3>2
  <2>5. from.actions[m] \in Action
    BY <1>1, <2>3, ElementOfSeq
  <2>6. PICK v \in Action : v = from.actions[m]
    BY <2>5
  <2>7. PICK p : p = Put(to.actions, m, v)
    OBVIOUS
  <2>8. /\ p \in Seq(Action) /\ Len(p) \in Nat
        /\ Len(to.actions) <= Len(p) /\ m <= Len(p) /\ p[m] = v
        /\ \A j \in 1 .. Len(to.actions) : j # m => p[j] = to.actions[j]
    <3>1. to.actions \in Seq(Action)
      BY <1>2
    <3>. QED
      BY <2>4, <2>7, <3>1, PutWithin
  <2>9. c = [waypoints |-> to.waypoints, actions |-> p, plan |-> to.plan]
    <3>1. n # 0 /\ ~(n <= W)
      BY <1>6
    <3>2. c = [to EXCEPT !.actions = Put(@, n - W, from.actions[n - W])]
      BY <3>1 DEF Copy
    <3>. QED
      BY <1>3, <2>2, <2>6, <2>7, <3>2
  <2>10. c \in Objects
    BY <1>2, <2>8, <2>9 DEF Objects
  <2>11. ASSUME NEW i \in 1 .. from.plan.actions, i + from.plan.waypoints < n + 1
         PROVE  i <= Len(from.actions) /\ i <= Len(p) /\ p[i] = from.actions[i]
    <3>1. CASE i = m
      BY <2>3, <2>6, <2>8, <3>1
    <3>2. CASE i # m
      <4>1. i + from.plan.waypoints < n
        BY <2>1, <2>2, <2>11, <3>2
      <4>2. i <= Len(from.actions) /\ i <= Len(to.actions) /\ to.actions[i] = from.actions[i]
        BY <4>1 DEF Copied
      <4>. QED
        BY <1>2, <2>8, <3>2, <4>2
    <3>. QED
      BY <3>1, <3>2
  <2>12. \A i \in 1 .. from.plan.waypoints :
          i <= Len(from.waypoints) /\ i <= Len(to.waypoints)
            /\ to.waypoints[i] = from.waypoints[i]
    BY <1>6, <2>1 DEF Copied
  <2>. QED
    BY <2>3, <2>9, <2>10, <2>11, <2>12 DEF Copied
<1>. QED
  BY <1>4, <1>5, <1>6

(* The registration of instances leaves those that are there.              *)
LEMMA AllocatedKeeps ==
  ASSUME NEW from, NEW o \in Objects, NEW n, NEW k, Copied(from, o, k),
         from.plan.waypoints \in Nat, from.plan.actions \in Nat,
         Unset \in Waypoint, UnsetAction \in Action
  PROVE  /\ Allocated(o, n) \in Objects /\ Allocated(o, n).plan = o.plan
         /\ Copied(from, Allocated(o, n), k)
<1>1. /\ o.waypoints \in Seq(Waypoint) /\ o.actions \in Seq(Action)
      /\ Len(o.waypoints) \in Nat /\ Len(o.actions) \in Nat
      /\ o.plan.waypoints \in Nat /\ o.plan.actions \in Nat
      /\ o.plan \in [waypoints : Nat, actions : Nat, crc : CrcValue]
  BY ObjectsRecord
<1>2. o = [waypoints |-> o.waypoints, actions |-> o.actions, plan |-> o.plan]
  BY DEF Objects
<1>3. PICK ws : ws = IF n = 0 THEN Extended(o.waypoints, o.plan.waypoints, Unset)
                     ELSE o.waypoints
  OBVIOUS
<1>4. PICK acts : acts = IF n = o.plan.waypoints
                     THEN Extended(o.actions, o.plan.actions, UnsetAction) ELSE o.actions
  OBVIOUS
<1>5. Allocated(o, n) = [waypoints |-> ws, actions |-> acts, plan |-> o.plan]
  <2>1. Allocated(o, n) = [o EXCEPT !.waypoints = ws, !.actions = acts]
    BY <1>3, <1>4 DEF Allocated
  <2>. QED
    BY <1>2, <2>1
<1>6. /\ ws \in Seq(Waypoint) /\ Len(ws) \in Nat /\ Len(o.waypoints) <= Len(ws)
      /\ \A j \in 1 .. Len(o.waypoints) : ws[j] = o.waypoints[j]
  <2>1. CASE n = 0
    <3>1. ws = Extended(o.waypoints, o.plan.waypoints, Unset)
      BY <1>3, <2>1
    <3>. QED
      BY <1>1, <3>1, ExtendedKeeps
  <2>2. CASE n # 0
    BY <1>1, <1>3, <2>2
  <2>. QED
    BY <2>1, <2>2
<1>7. /\ acts \in Seq(Action) /\ Len(acts) \in Nat /\ Len(o.actions) <= Len(acts)
      /\ \A j \in 1 .. Len(o.actions) : acts[j] = o.actions[j]
  <2>1. CASE n = o.plan.waypoints
    <3>1. acts = Extended(o.actions, o.plan.actions, UnsetAction)
      BY <1>4, <2>1
    <3>. QED
      BY <1>1, <3>1, ExtendedKeeps
  <2>2. CASE n # o.plan.waypoints
    BY <1>1, <1>4, <2>2
  <2>. QED
    BY <2>1, <2>2
<1>8. Allocated(o, n) \in Objects
  <2>1. PICK q \in [waypoints : Nat, actions : Nat, crc : CrcValue] :
          q = o.plan
    BY <1>1
  <2>2. ws \in Seq(Waypoint) /\ acts \in Seq(Action)
    BY <1>6, <1>7
  <2>3. [waypoints |-> ws, actions |-> acts, plan |-> q] \in Objects
    BY <2>2 DEF Objects
  <2>. QED
    BY <1>5, <2>1, <2>3
<1>9. \A i \in 1 .. from.plan.waypoints : i <= Len(o.waypoints) =>
        i <= Len(ws) /\ ws[i] = o.waypoints[i]
  BY <1>1, <1>6
<1>10. \A i \in 1 .. from.plan.actions : i <= Len(o.actions) =>
        i <= Len(acts) /\ acts[i] = o.actions[i]
  <2>1. Len(o.actions) \in Nat /\ from.plan.actions \in Nat
    BY <1>1
  <2>2. \A i \in 1 .. from.plan.actions : i <= Len(o.actions) => i \in 1 .. Len(o.actions)
    BY <2>1
  <2>. QED
    BY <1>7, <2>1, <2>2
<1>11. Copied(from, Allocated(o, n), k)
  <2>1. PICK c : c = Allocated(o, n)
    OBVIOUS
  <2>2. c.waypoints = ws /\ c.actions = acts /\ c.plan = o.plan
    BY <1>5, <2>1
  <2>3. Copied(from, c, k)
    BY <1>9, <1>10, <2>2 DEF Copied
  <2>. QED
    BY <2>1, <2>3
<1>. QED
  BY <1>5, <1>8, <1>11

(* When all have arrived the plan is as whole at to as it is at from.      *)
LEMMA CopiedAll ==
  ASSUME NEW from \in Objects, NEW to \in Objects,
         Copied(from, to, Final(from) + 1)
  PROVE  /\ Consistent(to) <=> Consistent(from)
         /\ to.plan = from.plan
         /\ from.plan.actions <= Len(to.actions)
         /\ \A i \in 1 .. from.plan.waypoints : to.waypoints[i] = from.waypoints[i]
         /\ \A i \in 1 .. from.plan.actions : to.actions[i] = from.actions[i]
<1>. DEFINE W == from.plan.waypoints
            A == from.plan.actions
<1>1. /\ from.waypoints \in Seq(Waypoint) /\ from.actions \in Seq(Action)
      /\ Len(from.waypoints) \in Nat /\ Len(from.actions) \in Nat
      /\ W \in Nat /\ A \in Nat /\ Final(from) = W + A
  BY ObjectsRecord
<1>2. /\ to.waypoints \in Seq(Waypoint) /\ to.actions \in Seq(Action)
      /\ Len(to.waypoints) \in Nat /\ Len(to.actions) \in Nat
  BY ObjectsRecord
<1>3. to.plan = from.plan
  BY <1>1 DEF Copied
<1>4. \A i \in 1 .. W : /\ i <= Len(from.waypoints) /\ i <= Len(to.waypoints)
                        /\ to.waypoints[i] = from.waypoints[i]
  BY <1>1 DEF Copied
<1>5. \A i \in 1 .. A : /\ i <= Len(from.actions) /\ i <= Len(to.actions)
                        /\ to.actions[i] = from.actions[i]
  BY <1>1 DEF Copied
<1>6. /\ W <= Len(to.waypoints) /\ A <= Len(to.actions)
      /\ W <= Len(from.waypoints) /\ A <= Len(from.actions)
  <2>1. (W = 0 \/ W \in 1 .. W) /\ (A = 0 \/ A \in 1 .. A)
    BY <1>1
  <2>. QED
    BY <1>1, <1>2, <1>4, <1>5, <2>1
<1>7. SubSeq(to.waypoints, 1, W) = SubSeq(from.waypoints, 1, W)
  BY <1>1, <1>2, <1>4, SamePrefix
<1>8. SubSeq(to.actions, 1, A) = SubSeq(from.actions, 1, A)
  BY <1>1, <1>2, <1>5, SamePrefix
<1>9. Consistent(to) <=> Consistent(from)
  BY <1>3, <1>6, <1>7, <1>8 DEF Consistent, Used
<1>. QED
  BY <1>3, <1>4, <1>5, <1>6, <1>9
-----------------------------------------------------------------------------
LEMMA ListsAre ==
  ASSUME NEW S, NEW s
  PROVE  s \in Lists(S) <=> s \in Seq(S) /\ Len(s) <= MaxRows
<1>1. MaxRows \in Nat
  BY PlanAssumption
<1>2. ASSUME s \in Lists(S)
      PROVE  s \in Seq(S) /\ Len(s) <= MaxRows
  <2>1. PICK n \in 0 .. MaxRows : s \in [1 .. n -> S]
    BY <1>2 DEF Lists
  <2>2. s \in Seq(S) /\ DOMAIN s = 1 .. n /\ n \in Nat
    BY <1>1, <2>1
  <2>3. Len(s) = n
    BY <2>2, LenProperties
  <2>. QED
    BY <1>1, <2>2, <2>3
<1>3. ASSUME s \in Seq(S), Len(s) <= MaxRows
      PROVE  s \in Lists(S)
  <2>1. Len(s) \in 0 .. MaxRows /\ s \in [1 .. Len(s) -> S]
    BY <1>1, <1>3, LenProperties
  <2>. QED
    BY <2>1 DEF Lists
<1>. QED
  BY <1>2, <1>3

LEMMA TablesAre ==
  ASSUME NEW rs
  PROVE  rs \in Tables <=> rs \in Seq(Row) /\ Len(rs) <= MaxRows
BY ListsAre DEF Tables

(* What is sent is a whole plan, and stands for the rows of the table      *)
(* where the actions are told apart by what findPathAction compares.       *)
LEMMA ModelFacts ==
  ASSUME NEW rs \in Tables, NEW o \in Objects
  PROVE  LET m == ModelToObjects(rs, o)
         IN  /\ m \in Objects /\ Consistent(m)
             /\ Used(m) \in Seq(Waypoint) \X Seq(Action) /\ Fits(Used(m))
             /\ Len(Used(m)[1]) = m.plan.waypoints /\ Len(Used(m)[2]) = m.plan.actions
             /\ m.plan.crc = Crc(Used(m)[1], Used(m)[2])
             /\ Exact => Means(m, rs)
<1>. DEFINE m == ModelToObjects(rs, o)
<1>1. rs \in Seq(Row) /\ Len(rs) <= MaxRows /\ Len(rs) \in Nat /\ DOMAIN rs = 1 .. Len(rs)
  BY TablesAre, LenProperties
<1>2. /\ o.waypoints \in Seq(Waypoint) /\ o.actions \in Seq(Action)
  BY ObjectsRecord
<1>3. PICK acts : acts = Compressed(rs)
  OBVIOUS
<1>4. /\ acts \in Seq(Action) /\ Len(acts) \in Nat /\ Len(acts) <= Len(rs)
      /\ \A i \in 1 .. Len(rs) : Found(acts, rs[i]) # {}
  BY <1>1, <1>3, CompressedFacts, LenProperties
<1>5. PICK ws : ws = [i \in 1 .. Len(rs) |-> ToWaypoint(rs[i], acts)]
  OBVIOUS
<1>6. ASSUME NEW i \in 1 .. Len(rs)
      PROVE  /\ rs[i] \in Row /\ ws[i] \in Waypoint /\ ws[i].position = rs[i].position
             /\ ws[i].action + 1 \in 1 .. Len(acts)
             /\ Len(acts) <= ActionWidth => acts[ws[i].action + 1].key = rs[i].key
  <2>1. rs[i] \in Row /\ Found(acts, rs[i]) # {}
    BY <1>1, <1>4, ElementOfSeq
  <2>2. ws[i] = ToWaypoint(rs[i], acts)
    BY <1>5
  <2>. QED
    BY <1>4, <2>1, <2>2, WaypointFacts
<1>7. ws \in Seq(Waypoint) /\ Len(ws) = Len(rs)
  <2>1. ws \in [1 .. Len(rs) -> Waypoint]
    BY <1>5, <1>6
  <2>2. ws \in Seq(Waypoint) /\ DOMAIN ws = 1 .. Len(rs)
    BY <1>1, <2>1
  <2>3. \A n \in Nat : DOMAIN ws = 1 .. n => Len(ws) = n
    BY <2>2, LenProperties
  <2>. QED
    BY <1>1, <2>2, <2>3
<1>8. PICK W : W = Over(o.waypoints, ws)
  OBVIOUS
<1>9. PICK A : A = Over(o.actions, acts)
  OBVIOUS
<1>10. /\ W \in Seq(Waypoint) /\ Len(ws) <= Len(W)
       /\ \A j \in 1 .. Len(ws) : W[j] = ws[j]
       /\ SubSeq(W, 1, Len(ws)) = ws
  <2>1. PICK old \in Seq(Waypoint) : old = o.waypoints
    BY <1>2
  <2>2. ws \in Seq(Waypoint) /\ W = Over(old, ws)
    BY <1>7, <1>8, <2>1
  <2>. QED
    BY <2>2, OverKeeps
<1>11. /\ A \in Seq(Action) /\ Len(acts) <= Len(A)
       /\ \A j \in 1 .. Len(acts) : A[j] = acts[j]
       /\ SubSeq(A, 1, Len(acts)) = acts
  <2>1. PICK old \in Seq(Action) : old = o.actions
    BY <1>2
  <2>2. acts \in Seq(Action) /\ A = Over(old, acts)
    BY <1>4, <1>9, <2>1
  <2>. QED
    BY <2>2, OverKeeps
<1>12. PICK plan : plan = [waypoints |-> Len(ws), actions |-> Len(acts), crc |-> Crc(ws, acts)]
  OBVIOUS
<1>13. m = [waypoints |-> W, actions |-> A, plan |-> plan]
  BY <1>1, <1>3, <1>5, <1>8, <1>9, <1>12, Zenon DEF ModelToObjects
<1>14. plan \in [waypoints : Nat, actions : Nat, crc : CrcValue]
  <2>1. ws \in Lists(Waypoint) /\ acts \in Lists(Action)
    BY <1>1, <1>4, <1>7, ListsAre, PlanAssumption
  <2>2. Len(ws) \in Nat /\ Len(acts) \in Nat /\ Crc(ws, acts) \in CrcValue
    BY <1>1, <1>4, <1>7, <2>1, CrcAssumption
  <2>. QED
    BY <1>12, <2>2
<1>15. m \in Objects
  <2>1. W \in Seq(Waypoint) /\ A \in Seq(Action)
    BY <1>10, <1>11
  <2>. QED
    BY <1>13, <1>14, <2>1 DEF Objects
<1>16. /\ m.waypoints = W /\ m.actions = A /\ m.plan.waypoints = Len(ws)
       /\ m.plan.actions = Len(acts) /\ m.plan.crc = Crc(ws, acts)
  BY <1>12, <1>13
<1>. HIDE DEF m
<1>17. Used(m) = <<ws, acts>> /\ Used(m)[1] = ws /\ Used(m)[2] = acts
  BY <1>10, <1>11, <1>16 DEF Used
<1>18. /\ Consistent(m) /\ Fits(Used(m)) /\ m.plan.crc = Crc(Used(m)[1], Used(m)[2])
       /\ Used(m) \in Seq(Waypoint) \X Seq(Action)
       /\ Len(Used(m)[1]) = m.plan.waypoints /\ Len(Used(m)[2]) = m.plan.actions
  BY <1>1, <1>4, <1>7, <1>10, <1>11, <1>16, <1>17 DEF Consistent, Fits
<1>19. ASSUME Exact
       PROVE  Means(m, rs)
  <2>1. ASSUME NEW i \in 1 .. Len(rs)
        PROVE  /\ W[i].action + 1 \in 1 .. Len(acts)
               /\ rs[i] = [position |-> W[i].position, key |-> A[W[i].action + 1].key,
                           rest |-> A[W[i].action + 1].rest]
    <3>1. W[i] = ws[i]
      BY <1>7, <1>10
    <3>2. PICK k \in 1 .. Len(acts) : k = ws[i].action + 1
      BY <1>6
    <3>3. A[k] = acts[k] /\ acts[k] \in Action
      BY <1>4, <1>11, ElementOfSeq
    <3>4. acts[k].key = rs[i].key
      <4>1. Len(acts) <= ActionWidth
        BY <1>1, <1>4, <1>19, PlanAssumption DEF Exact
      <4>. QED
        BY <1>6, <3>2, <4>1
    <3>5. acts[k].rest = rs[i].rest
      BY <1>6, <1>19, <3>3 DEF Exact, Row, Action
    <3>6. rs[i] = [position |-> rs[i].position, key |-> rs[i].key, rest |-> rs[i].rest]
      BY <1>6 DEF Row
    <3>7. ws[i].position = rs[i].position
      BY <1>6
    <3>. QED
      BY <3>1, <3>2, <3>3, <3>4, <3>5, <3>6, <3>7
  <2>. QED
    BY <1>7, <1>16, <2>1 DEF Means, Closed
<1>. QED
  BY <1>15, <1>18, <1>19 DEF m

(* The rows made of an accepted plan fit into the editor.                  *)
LEMMA RowsOfPlan ==
  ASSUME NEW o \in Objects, Consistent(o), o.plan.waypoints <= MaxRows,
         NEW rs \in Tables, NEW new \in Action
  PROVE  ObjectsToModel(o, rs, new) \in Tables
<1>. DEFINE W == o.plan.waypoints
<1>1. /\ o.waypoints \in Seq(Waypoint) /\ o.actions \in Seq(Action)
      /\ Len(o.waypoints) \in Nat /\ W \in Nat /\ W <= Len(o.waypoints)
      /\ rs \in Seq(Row)
  BY ObjectsRecord, TablesAre DEF Consistent
<1>2. W \in 0 .. MaxRows
  BY <1>1, PlanAssumption
<1>. HIDE DEF W
<1>3. ASSUME NEW i \in 1 .. W
      PROVE  ObjectsToModel(o, rs, new)[i] \in Row
  <2>1. PICK w \in Waypoint : w = o.waypoints[i]
    BY <1>1, ElementOfSeq
  <2>2. PICK a : a = CASE w.action + 1 \in DOMAIN o.actions -> o.actions[w.action + 1]
                       [] w.action + 1 \notin DOMAIN o.actions /\ i \in DOMAIN rs -> rs[i]
                       [] OTHER -> new
    OBVIOUS
  <2>3. a \in Action \cup Row
    <3>1. \A n \in DOMAIN o.actions : o.actions[n] \in Action
      BY <1>1
    <3>2. \A n \in DOMAIN rs : rs[n] \in Row
      BY <1>1
    <3>. QED
      BY <2>2, <3>1, <3>2
  <2>4. a.key \in Key /\ a.rest \in Rest /\ w.position \in Position
    BY <2>1, <2>3 DEF Action, Row, Waypoint
  <2>5. ObjectsToModel(o, rs, new)[i] = [position |-> w.position, key |-> a.key, rest |-> a.rest]
    BY <2>1, <2>2 DEF ObjectsToModel, W
  <2>. QED
    BY <2>4, <2>5 DEF Row
<1>4. ObjectsToModel(o, rs, new) = [i \in 1 .. W |-> ObjectsToModel(o, rs, new)[i]]
  BY DEF ObjectsToModel, W
<1>5. ObjectsToModel(o, rs, new) \in [1 .. W -> Row]
  BY <1>3, <1>4
<1>. QED
  BY <1>2, <1>5 DEF Tables, Lists

LEMMA FreshFacts ==
  /\ Unset \in Waypoint /\ UnsetAction \in Action /\ Fresh \in Objects
  /\ Fresh.plan.waypoints = 0 /\ Fresh.plan.actions = 0
  /\ Fresh.plan.crc = Crc(<<>>, <<>>)
<1>1. Unset \in Waypoint
  <2>1. (CHOOSE p \in Position : TRUE) \in Position /\ 0 \in 0 .. ActionWidth - 1
    BY PlanAssumption
  <2>. QED
    BY <2>1 DEF Unset, Waypoint
<1>2. UnsetAction \in Action
  <2>1. (CHOOSE k \in Key : TRUE) \in Key /\ (CHOOSE r \in Rest : TRUE) \in Rest
    BY PlanAssumption
  <2>. QED
    BY <2>1 DEF UnsetAction, Action
<1>3. <<Unset>> \in Seq(Waypoint) /\ <<UnsetAction>> \in Seq(Action)
  BY <1>1, <1>2
<1>4. Crc(<<>>, <<>>) \in CrcValue
  <2>1. <<>> \in Seq(Waypoint) /\ <<>> \in Seq(Action) /\ Len(<<>>) = 0
    BY EmptySeq
  <2>2. <<>> \in Lists(Waypoint) /\ <<>> \in Lists(Action)
    <3>1. Len(<<>>) <= MaxRows
      BY <2>1, PlanAssumption
    <3>. QED
      BY <2>1, <3>1, ListsAre
  <2>. QED
    BY <2>2, CrcAssumption
<1>5. PICK u : u = <<Unset>> /\ u \in Seq(Waypoint)
  BY <1>3
<1>6. PICK v : v = <<UnsetAction>> /\ v \in Seq(Action)
  BY <1>3
<1>7. PICK c : c = Crc(<<>>, <<>>) /\ c \in CrcValue
  BY <1>4
<1>8. Fresh = [waypoints |-> u, actions |-> v,
               plan |-> [waypoints |-> 0, actions |-> 0, crc |-> c]]
  BY <1>5, <1>6, <1>7 DEF Fresh
<1>9. [waypoints |-> 0, actions |-> 0, crc |-> c]
        \in [waypoints : Nat, actions : Nat, crc : CrcValue]
  BY <1>7
<1>10. Fresh \in Objects
  BY <1>5, <1>6, <1>8, <1>9 DEF Objects
<1>11. Fresh.plan = [waypoints |-> 0, actions |-> 0, crc |-> c]
  BY <1>8
<1>. QED
  BY <1>1, <1>2, <1>7, <1>10, <1>11

-----------------------------------------------------------------------------
LEMMA InitPlan == Init => PlanInv
<1> SUFFICES ASSUME Init
             PROVE  PlanInv
  OBVIOUS
<1>1. rows = <<>> /\ gcs = Fresh /\ board = Fresh /\ op = [type |-> "idle", next |-> 0]
        /\ result = "none" /\ sends = 0 /\ written = {<< <<>>, <<>> >>}
  BY DEF Init, Idle
<1>2. Fresh \in Objects /\ Final(Fresh) \in Nat
  BY FreshFacts, ObjectsRecord
<1>3. rows \in Tables
  <2>1. <<>> \in Seq(Row) /\ Len(<<>>) = 0 /\ MaxRows \in Nat
    BY EmptySeq, PlanAssumption
  <2>2. rows \in Seq(Row) /\ Len(rows) <= MaxRows
    BY <1>1, <2>1
  <2>. QED
    BY <2>2, TablesAre
<1>4. << <<>>, <<>> >> \in Seq(Waypoint) \X Seq(Action) /\ Fits(<< <<>>, <<>> >>)
  <2>1. <<>> \in Seq(Waypoint) /\ <<>> \in Seq(Action) /\ Len(<<>>) = 0
    BY EmptySeq
  <2>2. Len(<<>>) <= MaxRows
    BY <2>1, PlanAssumption
  <2>3. PICK e : e = <<>>
    OBVIOUS
  <2>4. <<e, e>> \in Seq(Waypoint) \X Seq(Action) /\ <<e, e>>[1] = e
    BY <2>1, <2>3
  <2>. QED
    BY <2>2, <2>3, <2>4 DEF Fits
<1>5. TypeOK
  BY <1>1, <1>2, <1>3, <1>4, PlanAssumption DEF TypeOK
<1>6. Transfer /\ RefusedOnlyIfTorn /\ \A p \in written : Fits(p)
  BY <1>1, <1>2, <1>4 DEF Transfer, RefusedOnlyIfTorn
<1>. QED
  BY <1>5, <1>6 DEF PlanInv

(* What an operation in progress finds and leaves.                         *)
LEMMA SendStep ==
  ASSUME PlanInv, NEW ok \in BOOLEAN, NEW arrives \in BOOLEAN, SendObject(ok, arrives)
  PROVE  /\ board' \in Objects
         /\ ok => Copied(gcs, board', op.next + 1)
<1>1. /\ gcs \in Objects /\ board \in Objects /\ op.next \in 0 .. Final(gcs)
      /\ op.type = "send"
  BY DEF PlanInv, TypeOK, SendObject
<1>2. Consistent(gcs) /\ Copied(gcs, board, op.next)
  BY <1>1 DEF PlanInv, Transfer
<1>3. PICK W \in Nat : W = gcs.plan.waypoints
  BY <1>1, ObjectsRecord
<1>4. Final(gcs) \in Nat /\ Final(gcs) = W + gcs.plan.actions /\ gcs.plan.actions \in Nat
  BY <1>1, <1>3, ObjectsRecord
<1>5. op.next \in Nat /\ op.next <= Final(gcs)
  BY <1>1, <1>4
<1>6. Has(gcs, W, op.next)
  <2>1. /\ W <= Len(gcs.waypoints) /\ gcs.plan.actions <= Len(gcs.actions)
        /\ Len(gcs.waypoints) \in Nat /\ Len(gcs.actions) \in Nat
    BY <1>1, <1>2, <1>3, ObjectsRecord DEF Consistent
  <2>. QED
    BY <1>4, <1>5, <2>1 DEF Has
<1>7. /\ Copy(gcs, board, W, op.next) \in Objects
      /\ Copied(gcs, Copy(gcs, board, W, op.next), op.next + 1)
  BY <1>1, <1>2, <1>3, <1>5, <1>6, CopyKeeps
<1>8. /\ board' = IF arrives THEN Copy(gcs, board, W, op.next) ELSE board
      /\ ok => arrives
  BY <1>3 DEF SendObject
<1>. QED
  BY <1>1, <1>7, <1>8

LEMMA ReceiveStep ==
  ASSUME PlanInv, NEW ok \in BOOLEAN, NEW arrives \in BOOLEAN, ReceiveObject(ok, arrives),
         NEW o, o = IF arrives THEN Copy(board, gcs, gcs.plan.waypoints, op.next) ELSE gcs
  PROVE  /\ o \in Objects /\ gcs' \in Objects /\ gcs'.plan = o.plan
         /\ ok => Copied(board, gcs', op.next + 1)
<1>1. /\ gcs \in Objects /\ board \in Objects /\ op.next \in 0 .. Final(gcs)
      /\ op.type = "receive"
  BY DEF PlanInv, TypeOK, ReceiveObject
<1>2. Copied(board, gcs, op.next)
  BY <1>1 DEF PlanInv, Transfer
<1>3. PICK W \in Nat : W = gcs.plan.waypoints
  BY <1>1, ObjectsRecord
<1>4. op.next \in Nat /\ op.next <= Final(gcs) /\ board.plan.waypoints \in Nat
        /\ board.plan.actions \in Nat
  BY <1>1, ObjectsRecord
<1>5. op.next > 0 => W = board.plan.waypoints /\ op.next <= Final(board)
  BY <1>2, <1>3, <1>4 DEF Copied, Final
<1>6. /\ arrives => Has(board, W, op.next)
      /\ ok => arrives
      /\ ~ok => gcs' = o
      /\ ok => gcs' = Allocated(o, op.next)
  BY <1>3 DEF ReceiveObject
<1>7. arrives => /\ o \in Objects
                 /\ Copied(board, o, op.next + 1)
  BY <1>1, <1>2, <1>3, <1>4, <1>5, <1>6, CopyKeeps
<1>8. o \in Objects
  BY <1>1, <1>7
<1>9. ok => /\ gcs' \in Objects /\ gcs'.plan = o.plan
            /\ Copied(board, gcs', op.next + 1)
  <2>1. Unset \in Waypoint /\ UnsetAction \in Action
    BY FreshFacts
  <2>. QED
    BY <1>4, <1>6, <1>7, <1>8, <2>1, AllocatedKeeps
<1>. QED
  BY <1>6, <1>8, <1>9

(* What the last object of a plan to be read back completes.               *)
LEMMA ReceiveEnds ==
  ASSUME PlanInv, NEW ok \in BOOLEAN, NEW arrives \in BOOLEAN, ReceiveObject(ok, arrives),
         op' = Idle, result' # "failed"
  PROVE  /\ Copied(board, gcs', Final(board) + 1) /\ Accept(gcs')
         /\ gcs' \in Objects /\ board \in Objects
<1>1. PICK o : o = IF arrives THEN Copy(board, gcs, gcs.plan.waypoints, op.next) ELSE gcs
  OBVIOUS
<1>2. /\ o \in Objects /\ gcs' \in Objects /\ gcs'.plan = o.plan
      /\ ok => Copied(board, gcs', op.next + 1)
  BY <1>1, ReceiveStep
<1>3. op.type = "receive" /\ Idle.type = "idle"
  BY DEF ReceiveObject, Idle
<1>4. ok /\ ~(op.next < Final(o)) /\ Accept(gcs')
  <2>1. op.type = "receive" /\ op \in [type : {"idle", "send", "receive"}, next : Nat]
    BY <1>3 DEF PlanInv, Transfer
  <2>2. [op EXCEPT !.next = @ + 1] # Idle
    BY <1>3, <2>1
  <2>. QED
    BY <1>1, <2>2 DEF ReceiveObject, Fail
<1>5. gcs \in Objects /\ board \in Objects /\ op.next \in 0 .. Final(gcs)
        /\ Copied(board, gcs, op.next)
  BY <1>3 DEF PlanInv, TypeOK, Transfer
<1>6. Final(gcs) \in Nat /\ Final(board) \in Nat
  BY <1>5, ObjectsRecord
<1>7. gcs'.plan = board.plan
  BY <1>2, <1>4, <1>5 DEF Copied
<1>8. Final(board) = Final(o)
  BY <1>2, <1>7 DEF Final
<1>9. op.next <= Final(board)
  <2>1. CASE op.next = 0
    BY <1>6, <2>1
  <2>2. CASE op.next # 0
    <3>1. gcs.plan = board.plan
      BY <1>5, <1>6, <2>2 DEF Copied
    <3>. QED
      BY <1>5, <1>6, <3>1 DEF Final
  <2>. QED
    BY <2>1, <2>2
<1>10. op.next = Final(board)
  BY <1>4, <1>5, <1>6, <1>8, <1>9
<1>. QED
  BY <1>2, <1>4, <1>5, <1>10

-----------------------------------------------------------------------------
(* The counts and the check sum of a plan travel in one object.            *)
LEMMA CopyPlan ==
  ASSUME NEW from \in Objects, NEW to \in Objects, NEW waypoints, NEW n
  PROVE  Copy(from, to, waypoints, n).plan \in {from.plan, to.plan}
<1> DEFINE c == Copy(from, to, waypoints, n)
<1>1. \/ c = [to EXCEPT !.plan = from.plan]
      \/ \E v : c = [to EXCEPT !.waypoints = v]
      \/ \E v : c = [to EXCEPT !.actions = v]
  BY DEF Copy
<1> QED
  BY <1>1 DEF Objects

LEMMA InitWhole == Init => WholeInv
<1> SUFFICES ASSUME Init
             PROVE  WholeInv
  OBVIOUS
<1>1. /\ gcs = Fresh /\ board = Fresh /\ op = Idle /\ result = "none"
      /\ written = {<< <<>>, <<>> >>}
  BY DEF Init
<1>2. Vouched(Fresh.plan)
  <2>1. Len(<<>>) = 0
    BY EmptySeq
  <2>. QED
    BY <1>1, <2>1, FreshFacts DEF Vouched
<1>. QED
  BY <1>1, <1>2 DEF WholeInv, SumsWritten, NoResultYet, ReceivedPlanIsVouched, Idle

LEMMA NextWhole == WholeInv /\ PlanInv /\ [Next]_vars => WholeInv'
<1> SUFFICES ASSUME WholeInv, PlanInv, [Next]_vars
             PROVE  WholeInv'
  OBVIOUS
<1>1. /\ Vouched(gcs.plan) /\ Vouched(board.plan) /\ Vouched(Fresh.plan)
      /\ op.type # "idle" => result = "none"
      /\ rows \in Tables /\ gcs \in Objects /\ board \in Objects
      /\ op \in [type : {"idle", "send", "receive"}, next : Nat] /\ Idle.type = "idle"
  BY DEF WholeInv, SumsWritten, NoResultYet, PlanInv, TypeOK, Transfer, Idle
<1>2. ASSUME written' = written,
             gcs'.plan \in {gcs.plan, board.plan, Fresh.plan},
             board'.plan \in {gcs.plan, board.plan, Fresh.plan},
             op'.type # "idle" => result' = "none",
             result' = "received" => Consistent(gcs')
      PROVE  WholeInv'
  <2>1. Vouched(gcs.plan)' /\ Vouched(board.plan)' /\ Vouched(Fresh.plan)'
    BY <1>1, <1>2 DEF Vouched
  <2>2. ReceivedPlanIsVouched'
    BY <1>2, <2>1 DEF Vouched, ReceivedPlanIsVouched, Consistent
  <2>. QED
    BY <1>2, <2>1, <2>2 DEF WholeInv, SumsWritten, NoResultYet
<1>3. ASSUME NEW rs \in Tables, Edit(rs)
      PROVE  WholeInv'
  BY <1>1, <1>2, <1>3 DEF Edit
<1>4. CASE SendPathPlan
  <2>1. /\ gcs' = ModelToObjects(rows, gcs) /\ written' = written \cup {Used(gcs')}
        /\ board' = board /\ result' = "none"
    BY <1>4 DEF SendPathPlan
  <2>2. /\ Len(Used(gcs')[1]) = gcs'.plan.waypoints /\ Len(Used(gcs')[2]) = gcs'.plan.actions
        /\ gcs'.plan.crc = Crc(Used(gcs')[1], Used(gcs')[2])
    BY <1>1, <2>1, ModelFacts
  <2>3. Vouched(gcs.plan)'
    BY <2>1, <2>2 DEF Vouched
  <2>4. Vouched(board.plan)' /\ Vouched(Fresh.plan)'
    BY <1>1, <2>1 DEF Vouched
  <2>. QED
    BY <2>1, <2>3, <2>4 DEF WholeInv, SumsWritten, NoResultYet, ReceivedPlanIsVouched
<1>5. CASE ReceivePathPlan
  BY <1>1, <1>2, <1>5 DEF ReceivePathPlan
<1>6. ASSUME NEW ok \in BOOLEAN, NEW arrives \in BOOLEAN, SendObject(ok, arrives)
      PROVE  WholeInv'
  <2>1. /\ UNCHANGED <<gcs, written>> /\ op.type = "send"
        /\ board' = IF arrives THEN Copy(gcs, board, gcs.plan.waypoints, op.next) ELSE board
    BY <1>6 DEF SendObject
  <2>2. board'.plan \in {gcs.plan, board.plan}
    BY <1>1, <2>1, CopyPlan
  <2>3. (op'.type # "idle" => result' = "none") /\ result' # "received"
    BY <1>1, <1>6, <2>1 DEF SendObject, Fail
  <2>. QED
    BY <1>2, <2>1, <2>2, <2>3
<1>7. ASSUME NEW ok \in BOOLEAN, NEW arrives \in BOOLEAN, ReceiveObject(ok, arrives)
      PROVE  WholeInv'
  <2>1. PICK o : o = IF arrives THEN Copy(board, gcs, gcs.plan.waypoints, op.next) ELSE gcs
    OBVIOUS
  <2>2. gcs'.plan = o.plan /\ o.plan \in {gcs.plan, board.plan}
    BY <1>1, <1>7, <2>1, ReceiveStep, CopyPlan
  <2>3. UNCHANGED <<board, written>> /\ op.type = "receive"
    BY <1>7 DEF ReceiveObject
  <2>4. /\ op'.type # "idle" => result' = "none"
        /\ result' = "received" => Consistent(gcs')
    BY <1>1, <1>7, <2>3 DEF ReceiveObject, Fail, Accept
  <2>. QED
    BY <1>2, <2>2, <2>3, <2>4
<1>8. CASE BoardRestart
  BY <1>1, <1>2, <1>8 DEF BoardRestart, Fail
<1>9. CASE GcsRestart
  BY <1>1, <1>2, <1>9 DEF GcsRestart
<1>10. CASE UNCHANGED vars
  BY <1>10 DEF vars, WholeInv, SumsWritten, NoResultYet, ReceivedPlanIsVouched, Vouched, Used
<1> QED
  BY <1>3, <1>4, <1>5, <1>6, <1>7, <1>8, <1>9, <1>10 DEF Next

LEMMA NextPlan == WholeInv /\ PlanInv /\ [Next]_vars => PlanInv'
<1> SUFFICES ASSUME WholeInv, PlanInv, [Next]_vars
             PROVE  PlanInv'
  OBVIOUS
<1>1. /\ rows \in Tables /\ gcs \in Objects /\ board \in Objects
      /\ op \in [type : {"idle", "send", "receive"}, next : Nat] /\ op.next \in 0 .. Final(gcs)
      /\ result \in {"none", "sent", "received", "failed", "refused"}
      /\ sends \in 0 .. MaxSends /\ written \subseteq Seq(Waypoint) \X Seq(Action)
      /\ Final(gcs) \in Nat
  BY ObjectsRecord DEF PlanInv, TypeOK, Transfer
<1>2. /\ op.type = "idle" => op.next = 0
      /\ op.type = "send" => Consistent(gcs) /\ Copied(gcs, board, op.next)
      /\ op.type = "receive" => Copied(board, gcs, op.next)
      /\ RefusedOnlyIfTorn /\ \A p \in written : Fits(p)
      /\ op.type # "idle" => result = "none"
  BY DEF PlanInv, Transfer, WholeInv, NoResultYet
<1>3. /\ Idle \in [type : {"idle", "send", "receive"}, next : Nat]
      /\ Idle.type = "idle" /\ Idle.next = 0
      /\ op.type = "idle" => op = Idle
  BY <1>1, <1>2 DEF Idle
<1>4. ASSUME NEW rs \in Tables, Edit(rs)
      PROVE  PlanInv'
  BY <1>1, <1>2, <1>4 DEF PlanInv, TypeOK, Transfer, RefusedOnlyIfTorn, Edit
<1>5. CASE SendPathPlan
  <2>1. /\ gcs' = ModelToObjects(rows, gcs) /\ written' = written \cup {Used(gcs')}
        /\ op' = [type |-> "send", next |-> 0] /\ result' = "none" /\ sends' = sends + 1
        /\ sends < MaxSends /\ rows' = rows /\ board' = board
    BY <1>5 DEF SendPathPlan, Begin
  <2>2. /\ gcs' \in Objects /\ Consistent(gcs') /\ Fits(Used(gcs'))
        /\ Used(gcs') \in Seq(Waypoint) \X Seq(Action)
    BY <1>1, <2>1, ModelFacts
  <2>3. /\ Final(gcs') \in Nat
        /\ gcs'.plan.waypoints \in Nat /\ gcs'.plan.actions \in Nat
    BY <2>2, ObjectsRecord
  <2>4. Copied(gcs', board, 0)
    BY <2>3 DEF Copied
  <2>5. TypeOK'
    BY <1>1, <2>1, <2>2, <2>3, PlanAssumption DEF TypeOK
  <2>6. Transfer'
    BY <2>1, <2>2, <2>4 DEF Transfer
  <2>7. RefusedOnlyIfTorn' /\ \A p \in written' : Fits(p)
    BY <1>2, <2>1, <2>2 DEF RefusedOnlyIfTorn
  <2>. QED
    BY <2>5, <2>6, <2>7 DEF PlanInv
<1>6. CASE ReceivePathPlan
  <2>1. /\ op' = [type |-> "receive", next |-> 0] /\ result' = "none"
        /\ UNCHANGED <<rows, gcs, board, sends, written>>
    BY <1>6 DEF ReceivePathPlan, Begin
  <2>2. board.plan.waypoints \in Nat /\ board.plan.actions \in Nat
    BY <1>1, ObjectsRecord
  <2>3. Copied(board, gcs, 0)
    BY <2>2 DEF Copied
  <2>4. TypeOK'
    BY <1>1, <2>1 DEF TypeOK
  <2>5. Transfer'
    BY <2>1, <2>3 DEF Transfer
  <2>6. RefusedOnlyIfTorn' /\ \A p \in written' : Fits(p)
    BY <1>2, <2>1 DEF RefusedOnlyIfTorn
  <2>. QED
    BY <2>4, <2>5, <2>6 DEF PlanInv
<1>7. ASSUME NEW ok \in BOOLEAN, NEW arrives \in BOOLEAN, SendObject(ok, arrives)
      PROVE  PlanInv'
  <2>1. op.type = "send" /\ UNCHANGED <<rows, gcs, sends, written>>
    BY <1>7 DEF SendObject
  <2>2. board' \in Objects /\ (ok => Copied(gcs, board', op.next + 1))
    BY <1>7, SendStep
  <2>3. \/ /\ op' = Idle /\ result' \in {"failed", "sent"}
        \/ /\ ok /\ op.next < Final(gcs) /\ op' = [op EXCEPT !.next = @ + 1]
           /\ result' = result
    BY <1>7 DEF SendObject, Fail
  <2>4. CASE op' = Idle /\ result' \in {"failed", "sent"}
    <3>1. TypeOK'
      BY <1>1, <1>3, <2>1, <2>2, <2>4 DEF TypeOK
    <3>2. Transfer'
      BY <1>3, <2>4 DEF Transfer
    <3>3. RefusedOnlyIfTorn' /\ \A p \in written' : Fits(p)
      BY <1>2, <2>1, <2>4 DEF RefusedOnlyIfTorn
    <3>. QED
      BY <3>1, <3>2, <3>3 DEF PlanInv
  <2>5. CASE /\ ok /\ op.next < Final(gcs) /\ op' = [op EXCEPT !.next = @ + 1]
             /\ result' = result
    <3>1. /\ op' \in [type : {"idle", "send", "receive"}, next : Nat]
          /\ op'.type = "send" /\ op'.next = op.next + 1 /\ op'.next \in 0 .. Final(gcs)
      BY <1>1, <2>1, <2>5
    <3>2. TypeOK'
      BY <1>1, <2>1, <2>2, <2>5, <3>1 DEF TypeOK
    <3>3. Transfer'
      BY <1>2, <2>1, <2>2, <2>5, <3>1 DEF Transfer
    <3>4. RefusedOnlyIfTorn' /\ \A p \in written' : Fits(p)
      BY <1>2, <2>1, <2>5 DEF RefusedOnlyIfTorn
    <3>. QED
      BY <3>2, <3>3, <3>4 DEF PlanInv
  <2>. QED
    BY <2>3, <2>4, <2>5
<1>8. ASSUME NEW ok \in BOOLEAN, NEW arrives \in BOOLEAN, ReceiveObject(ok, arrives)
      PROVE  PlanInv'
  <2>1. PICK o : o = IF arrives THEN Copy(board, gcs, gcs.plan.waypoints, op.next) ELSE gcs
    OBVIOUS
  <2>2. /\ o \in Objects /\ gcs' \in Objects /\ gcs'.plan = o.plan
        /\ ok => Copied(board, gcs', op.next + 1)
    BY <1>8, <2>1, ReceiveStep
  <2>3. op.type = "receive" /\ UNCHANGED <<board, sends, written>>
    BY <1>8 DEF ReceiveObject
  <2>4. \/ op' = Idle /\ result' = "failed" /\ rows' = rows
        \/ /\ ok /\ op.next < Final(o) /\ op' = [op EXCEPT !.next = @ + 1]
           /\ rows' = rows /\ result' = result
        \/ ok /\ ~(op.next < Final(o)) /\ op' = Idle /\ Accept(gcs')
    BY <1>8, <2>1 DEF ReceiveObject, Fail
  <2>5. Final(gcs') = Final(o) /\ Final(o) \in Nat
    BY <2>2, ObjectsRecord DEF Final
  <2>6. CASE op' = Idle /\ result' = "failed" /\ rows' = rows
    <3>1. TypeOK'
      BY <1>1, <1>3, <2>2, <2>3, <2>5, <2>6 DEF TypeOK
    <3>2. Transfer'
      BY <1>3, <2>6 DEF Transfer
    <3>3. RefusedOnlyIfTorn' /\ \A p \in written' : Fits(p)
      BY <1>2, <2>3, <2>6 DEF RefusedOnlyIfTorn
    <3>. QED
      BY <3>1, <3>2, <3>3 DEF PlanInv
  <2>7. CASE /\ ok /\ op.next < Final(o) /\ op' = [op EXCEPT !.next = @ + 1]
             /\ rows' = rows /\ result' = result
    <3>1. /\ op' \in [type : {"idle", "send", "receive"}, next : Nat]
          /\ op'.type = "receive" /\ op'.next = op.next + 1 /\ op'.next \in 0 .. Final(gcs')
      BY <1>1, <2>3, <2>5, <2>7
    <3>2. TypeOK'
      BY <1>1, <2>2, <2>3, <2>7, <3>1 DEF TypeOK
    <3>3. Transfer'
      BY <2>2, <2>3, <2>7, <3>1 DEF Transfer
    <3>4. RefusedOnlyIfTorn' /\ \A p \in written' : Fits(p)
      BY <1>2, <2>3, <2>7 DEF RefusedOnlyIfTorn
    <3>. QED
      BY <3>2, <3>3, <3>4 DEF PlanInv
  <2>8. CASE ok /\ ~(op.next < Final(o)) /\ op' = Idle /\ Accept(gcs')
    <3>1. Copied(board, gcs', Final(board) + 1)
      BY <1>8, <2>8, ReceiveEnds DEF Accept
    <3>2. Consistent(board) => Consistent(gcs')
      BY <1>1, <2>2, <3>1, CopiedAll
    <3>3. gcs'.plan.waypoints <= MaxRows
      <4>1. Vouched(gcs.plan)'
        BY NextWhole DEF WholeInv, SumsWritten
      <4>2. \A p \in written' : Fits(p)
        BY <1>2, <2>3
      <4>. QED
        BY <4>1, <4>2 DEF Vouched, Fits
    <3>4. /\ rows' \in Tables /\ result' \in {"received", "refused"}
          /\ result' = "refused" => ~Consistent(gcs')
      <4>1. CASE Consistent(gcs')
        BY <1>1, <2>2, <2>8, <3>3, <4>1, RowsOfPlan DEF Accept
      <4>2. CASE ~Consistent(gcs')
        BY <1>1, <2>8, <4>2 DEF Accept
      <4>. QED
        BY <4>1, <4>2
    <3>5. TypeOK'
      BY <1>1, <1>3, <2>2, <2>3, <2>5, <2>8, <3>4 DEF TypeOK
    <3>6. Transfer'
      BY <1>3, <2>8 DEF Transfer
    <3>7. RefusedOnlyIfTorn' /\ \A p \in written' : Fits(p)
      BY <1>2, <2>3, <3>2, <3>4 DEF RefusedOnlyIfTorn
    <3>. QED
      BY <3>5, <3>6, <3>7 DEF PlanInv
  <2>. QED
    BY <2>4, <2>6, <2>7, <2>8
<1>9. CASE BoardRestart
  <2>1. /\ board' = Fresh /\ op' = Idle /\ result' \in {"none", "failed"}
        /\ UNCHANGED <<rows, gcs, sends, written>>
    BY <1>9 DEF BoardRestart, Fail
  <2>2. TypeOK'
    BY <1>1, <1>3, <2>1, FreshFacts DEF TypeOK
  <2>3. Transfer'
    BY <1>3, <2>1 DEF Transfer
  <2>4. RefusedOnlyIfTorn' /\ \A p \in written' : Fits(p)
    BY <1>2, <2>1 DEF RefusedOnlyIfTorn
  <2>. QED
    BY <2>2, <2>3, <2>4 DEF PlanInv
<1>10. CASE GcsRestart
  <2>1. /\ rows' = <<>> /\ gcs' = Fresh /\ op' = Idle /\ result' = "none"
        /\ UNCHANGED <<board, sends, written>>
    BY <1>10 DEF GcsRestart
  <2>2. Final(Fresh) \in Nat /\ Fresh \in Objects
    BY FreshFacts, ObjectsRecord
  <2>3. rows' \in Tables
    <3>1. <<>> \in Seq(Row) /\ Len(<<>>) = 0 /\ MaxRows \in Nat
      BY EmptySeq, PlanAssumption
    <3>2. rows' \in Seq(Row) /\ Len(rows') <= MaxRows
      BY <2>1, <3>1
    <3>. QED
      BY <3>2, TablesAre
  <2>4. TypeOK'
    BY <1>1, <1>3, <2>1, <2>2, <2>3 DEF TypeOK
  <2>5. Transfer'
    BY <1>3, <2>1 DEF Transfer
  <2>6. RefusedOnlyIfTorn' /\ \A p \in written' : Fits(p)
    BY <1>2, <2>1 DEF RefusedOnlyIfTorn
  <2>. QED
    BY <2>4, <2>5, <2>6 DEF PlanInv
<1>11. CASE UNCHANGED vars
  BY <1>1, <1>2, <1>11 DEF vars, PlanInv, TypeOK, Transfer, RefusedOnlyIfTorn
<1>. QED
  BY <1>4, <1>5, <1>6, <1>7, <1>8, <1>9, <1>10, <1>11 DEF Next

(* Whatever is read back has the counts and the check sum of a plan that   *)
(* was summed up for sending, however sends and receives failed half-way,  *)
(* were repeated with other plans or were broken off by a restart: a       *)
(* mixture is taken for a plan only if the check sum cannot tell the two   *)
(* apart.  Nothing is assumed of the check sum.                            *)
THEOREM PlansAreVouched == Spec => []ReceivedPlanIsVouched
<1>1. Init => WholeInv /\ PlanInv
  BY InitWhole, InitPlan
<1>2. (WholeInv /\ PlanInv) /\ [Next]_vars => (WholeInv /\ PlanInv)'
  BY NextWhole, NextPlan
<1>3. WholeInv => ReceivedPlanIsVouched
  BY DEF WholeInv
<1> QED
  BY <1>1, <1>2, <1>3, PTL DEF Spec

(* Rows, objects, operation and result keep to their types; an operation   *)
(* never asks for an object behind the last of its plan, and the rows read *)
(* back from a plan fit into the editor.                                   *)
THEOREM PlanTypes == Spec => []TypeOK
<1>1. Init => WholeInv /\ PlanInv
  BY InitWhole, InitPlan
<1>2. (WholeInv /\ PlanInv) /\ [Next]_vars => (WholeInv /\ PlanInv)'
  BY NextWhole, NextPlan
<1>3. WholeInv /\ PlanInv => TypeOK
  BY DEF PlanInv
<1> QED
  BY <1>1, <1>2, <1>3, PTL DEF Spec

(* objectsToModel refuses a plan only if what lies on the board is not one *)
(* that is whole: the transfer itself, over whatever instances were there  *)
(* before and with whatever failed retrievals in between, tears no plan.   *)
THEOREM RefusalsAreDue == Spec => []RefusedOnlyIfTorn
<1>1. Init => WholeInv /\ PlanInv
  BY InitWhole, InitPlan
<1>2. (WholeInv /\ PlanInv) /\ [Next]_vars => (WholeInv /\ PlanInv)'
  BY NextWhole, NextPlan
<1>3. WholeInv /\ PlanInv => RefusedOnlyIfTorn
  BY DEF PlanInv
<1> QED
  BY <1>1, <1>2, <1>3, PTL DEF Spec

-----------------------------------------------------------------------------
(* Objects that are copied as a whole stand for the same rows.             *)
LEMMA RowsArrive ==
  ASSUME NEW from \in Objects, NEW to \in Objects, NEW rs, Means(from, rs),
         Copied(from, to, Final(from) + 1), Consistent(from)
  PROVE  Consistent(to) /\ Means(to, rs)
<1>1. /\ Consistent(to) /\ to.plan = from.plan
      /\ \A i \in 1 .. from.plan.waypoints : to.waypoints[i] = from.waypoints[i]
      /\ \A i \in 1 .. from.plan.actions : to.actions[i] = from.actions[i]
  BY CopiedAll
<1>2. from.plan.waypoints = Len(rs) /\ Closed(from)
  BY DEF Means
<1>3. ASSUME NEW i \in 1 .. Len(rs)
      PROVE  LET w == to.waypoints[i]
                 a == to.actions[w.action + 1]
             IN  rs[i] = [position |-> w.position, key |-> a.key, rest |-> a.rest]
  <2>1. PICK w : w = from.waypoints[i]
    OBVIOUS
  <2>2. /\ w.action + 1 \in 1 .. from.plan.actions
        /\ rs[i] = [position |-> w.position, key |-> from.actions[w.action + 1].key,
                    rest |-> from.actions[w.action + 1].rest]
    BY <1>2, <2>1 DEF Means, Closed
  <2>3. to.waypoints[i] = w /\ to.actions[w.action + 1] = from.actions[w.action + 1]
    BY <1>1, <1>2, <2>1, <2>2
  <2>. QED
    BY <2>2, <2>3
<1>4. Closed(to)
  BY <1>1, <1>2 DEF Closed
<1>. QED
  BY <1>1, <1>2, <1>3, <1>4 DEF Means

(* The rows made of objects that were copied as a whole are those the      *)
(* originals stand for, if these name no action beyond the plan.           *)
LEMMA RowsRead ==
  ASSUME NEW from \in Objects, NEW to \in Objects, NEW rs, NEW new,
         Copied(from, to, Final(from) + 1), Closed(from)
  PROVE  Means(from, ObjectsToModel(to, rs, new))
<1>. DEFINE W == from.plan.waypoints
            read == ObjectsToModel(to, rs, new)
<1>1. /\ to.plan = from.plan /\ from.plan.actions <= Len(to.actions)
      /\ \A i \in 1 .. W : to.waypoints[i] = from.waypoints[i]
      /\ \A i \in 1 .. from.plan.actions : to.actions[i] = from.actions[i]
  BY CopiedAll
<1>2. /\ W \in Nat /\ from.plan.actions \in Nat
      /\ DOMAIN to.actions = 1 .. Len(to.actions) /\ Len(to.actions) \in Nat
  BY ObjectsRecord, LenProperties
<1>3. ASSUME NEW i \in 1 .. W
      PROVE  LET w == from.waypoints[i]
                 a == from.actions[w.action + 1]
             IN  read[i] = [position |-> w.position, key |-> a.key, rest |-> a.rest]
  <2>1. PICK w : w = from.waypoints[i] /\ w = to.waypoints[i]
    BY <1>1
  <2>2. w.action + 1 \in 1 .. from.plan.actions
    BY <2>1 DEF Closed
  <2>3. w.action + 1 \in DOMAIN to.actions
    BY <1>1, <1>2, <2>2
  <2>4. PICK a : a = from.actions[w.action + 1] /\ a = to.actions[w.action + 1]
    BY <1>1, <2>2
  <2>5. i \in 1 .. to.plan.waypoints
    BY <1>1
  <2>6. read[i] = [position |-> w.position, key |-> a.key, rest |-> a.rest]
    BY <2>1, <2>3, <2>4, <2>5 DEF ObjectsToModel
  <2>. QED
    BY <2>1, <2>4, <2>6
<1>4. Len(read) = W
  <2>1. read = [i \in 1 .. W |-> read[i]]
    BY <1>1 DEF ObjectsToModel
  <2>. HIDE DEF read
  <2>2. DOMAIN read = 1 .. W /\ read \in Seq({read[i] : i \in 1 .. W})
    BY <1>2, <2>1
  <2>. QED
    BY <1>2, <2>2, LenProperties
<1>. HIDE DEF read
<1>5. Means(from, read)
  BY <1>3, <1>4 DEF Means
<1>. QED
  BY <1>5 DEF read

LEMMA InitSent == Init => SentInv
BY DEF Init, SentInv, SentPlanArrives, Idle

LEMMA NextSent ==
  ASSUME Exact
  PROVE  WholeInv /\ PlanInv /\ SentInv /\ [Next]_vars => SentInv'
<1> SUFFICES ASSUME WholeInv, PlanInv, SentInv, [Next]_vars
             PROVE  SentInv'
  OBVIOUS
<1>1. /\ rows \in Tables /\ gcs \in Objects /\ board \in Objects /\ op.next \in 0 .. Final(gcs)
      /\ op \in [type : {"idle", "send", "receive"}, next : Nat] /\ Final(gcs) \in Nat
      /\ op.type = "send" => Consistent(gcs) /\ Means(gcs, rows)
      /\ op.type # "idle" => result = "none"
  BY ObjectsRecord DEF PlanInv, TypeOK, Transfer, SentInv, WholeInv, NoResultYet
<1>2. Idle.type = "idle"
  BY DEF Idle
<1>3. ASSUME op'.type # "send", result' # "sent"
      PROVE  SentInv'
  BY <1>3 DEF SentInv, SentPlanArrives
<1>4. ASSUME NEW rs \in Tables, Edit(rs)
      PROVE  SentInv'
  BY <1>2, <1>3, <1>4 DEF Edit
<1>5. CASE SendPathPlan
  <2>1. Means(gcs', rows') /\ result' = "none"
    BY <1>1, <1>5, ModelFacts DEF SendPathPlan
  <2>. QED
    BY <2>1 DEF SentInv, SentPlanArrives
<1>6. CASE ReceivePathPlan
  BY <1>3, <1>6 DEF ReceivePathPlan, Begin
<1>7. ASSUME NEW ok \in BOOLEAN, NEW arrives \in BOOLEAN, SendObject(ok, arrives)
      PROVE  SentInv'
  <2>1. op.type = "send" /\ UNCHANGED <<rows, gcs>>
    BY <1>7 DEF SendObject
  <2>2. board' \in Objects /\ (ok => Copied(gcs, board', op.next + 1))
    BY <1>7, SendStep
  <2>3. \/ op' = Idle /\ result' = "failed"
        \/ op' = [op EXCEPT !.next = @ + 1] /\ result' = result
        \/ ok /\ ~(op.next < Final(gcs)) /\ op' = Idle /\ result' = "sent"
    BY <1>7 DEF SendObject, Fail
  <2>4. CASE op' = Idle /\ result' = "failed"
    BY <1>2, <1>3, <2>4
  <2>5. CASE op' = [op EXCEPT !.next = @ + 1] /\ result' = result
    BY <1>1, <2>1, <2>5 DEF SentInv, SentPlanArrives
  <2>6. CASE ok /\ ~(op.next < Final(gcs)) /\ op' = Idle /\ result' = "sent"
    <3>1. op.next = Final(gcs)
      BY <1>1, <2>6
    <3>2. Consistent(board') /\ Means(board', rows)
      BY <1>1, <2>1, <2>2, <2>6, <3>1, RowsArrive
    <3>. QED
      BY <1>2, <2>1, <2>6, <3>2 DEF SentInv, SentPlanArrives
  <2>. QED
    BY <2>3, <2>4, <2>5, <2>6
<1>8. ASSUME NEW ok \in BOOLEAN, NEW arrives \in BOOLEAN, ReceiveObject(ok, arrives)
      PROVE  SentInv'
  <2>1. op'.type # "send"
    BY <1>1, <1>2, <1>8 DEF ReceiveObject, Fail
  <2>2. result' # "sent"
    BY <1>1, <1>8 DEF ReceiveObject, Fail, Accept
  <2>. QED
    BY <1>3, <2>1, <2>2
<1>9. CASE BoardRestart
  BY <1>2, <1>3, <1>9 DEF BoardRestart, Fail
<1>10. CASE GcsRestart
  BY <1>2, <1>3, <1>10 DEF GcsRestart
<1>11. CASE UNCHANGED vars
  BY <1>11 DEF vars, SentInv, SentPlanArrives
<1>. QED
  BY <1>4, <1>5, <1>6, <1>7, <1>8, <1>9, <1>10, <1>11 DEF Next

(* A plan reported sent lies on the board as a whole, every waypoint with  *)
(* its action, whatever was there before and however earlier attempts      *)
(* broke off.  What the hypothesis rules out is what the code gets wrong:  *)
(* rows that differ only in what findPathAction does not compare, and more *)
(* rows than Waypoint.Action can number.                                   *)
THEOREM SentPlansArrive ==
  ASSUME Exact
  PROVE  Spec => []SentPlanArrives
<1>1. Init => WholeInv /\ PlanInv /\ SentInv
  BY InitWhole, InitPlan, InitSent
<1>2. (WholeInv /\ PlanInv /\ SentInv) /\ [Next]_vars => (WholeInv /\ PlanInv /\ SentInv)'
  BY NextWhole, NextPlan, NextSent
<1>3. WholeInv /\ PlanInv /\ SentInv => SentPlanArrives
  BY DEF SentInv
<1> QED
  BY <1>1, <1>2, <1>3, PTL DEF Spec

-----------------------------------------------------------------------------
LEMMA NextRead ==
  WholeInv /\ PlanInv /\ ReceivedPlanIsTheBoards /\ [Next]_vars => ReceivedPlanIsTheBoards'
<1> SUFFICES ASSUME WholeInv, PlanInv, ReceivedPlanIsTheBoards, [Next]_vars
             PROVE  ReceivedPlanIsTheBoards'
  OBVIOUS
<1>1. /\ op.type # "idle" => result = "none"
      /\ op \in [type : {"idle", "send", "receive"}, next : Nat]
  BY DEF WholeInv, NoResultYet, PlanInv, Transfer
<1>2. ASSUME result' # "received"
      PROVE  ReceivedPlanIsTheBoards'
  BY <1>2 DEF ReceivedPlanIsTheBoards
<1>3. ASSUME NEW rs \in Tables, Edit(rs)
      PROVE  ReceivedPlanIsTheBoards'
  BY <1>2, <1>3 DEF Edit
<1>4. CASE SendPathPlan \/ ReceivePathPlan
  BY <1>2, <1>4 DEF SendPathPlan, ReceivePathPlan
<1>5. ASSUME NEW ok \in BOOLEAN, NEW arrives \in BOOLEAN, SendObject(ok, arrives)
      PROVE  ReceivedPlanIsTheBoards'
  BY <1>1, <1>2, <1>5 DEF SendObject, Fail
<1>6. ASSUME NEW ok \in BOOLEAN, NEW arrives \in BOOLEAN, ReceiveObject(ok, arrives)
      PROVE  ReceivedPlanIsTheBoards'
  <2>. SUFFICES ASSUME result' = "received"
                PROVE  ReceivedPlanIsTheBoards'
    BY <1>2
  <2>1. op.type = "receive" /\ board' = board
    BY <1>6 DEF ReceiveObject
  <2>2. op' = Idle
    BY <1>1, <1>6, <2>1 DEF ReceiveObject, Fail
  <2>3. /\ Copied(board, gcs', Final(board) + 1) /\ Accept(gcs')
        /\ gcs' \in Objects /\ board \in Objects
    BY <1>6, <2>2, ReceiveEnds
  <2>4. Consistent(gcs') /\ \E new \in Action : rows' = ObjectsToModel(gcs', rows, new)
    BY <2>3 DEF Accept
  <2>5. Consistent(board)
    BY <2>3, <2>4, CopiedAll
  <2>6. Closed(board) => Means(board, rows')
    BY <2>3, <2>4, RowsRead
  <2>. QED
    BY <2>1, <2>5, <2>6 DEF ReceivedPlanIsTheBoards
<1>7. CASE BoardRestart \/ GcsRestart
  BY <1>2, <1>7 DEF BoardRestart, GcsRestart, Fail
<1>8. CASE UNCHANGED vars
  BY <1>8 DEF vars, ReceivedPlanIsTheBoards
<1>. QED
  BY <1>3, <1>4, <1>5, <1>6, <1>7, <1>8 DEF Next

(* What the editor shows after a plan was read back is what lies on the    *)
(* board: every waypoint with its action, whatever instances the station   *)
(* had before and however earlier requests failed.                         *)
THEOREM PlansReadAreTheBoards == Spec => []ReceivedPlanIsTheBoards
<1>1. Init => WholeInv /\ PlanInv /\ ReceivedPlanIsTheBoards
  BY InitWhole, InitPlan DEF Init, ReceivedPlanIsTheBoards
<1>2. WholeInv /\ PlanInv /\ ReceivedPlanIsTheBoards /\ [Next]_vars
        => (WholeInv /\ PlanInv /\ ReceivedPlanIsTheBoards)'
  BY NextWhole, NextPlan, NextRead
<1> QED
  BY <1>1, <1>2, PTL DEF Spec
=============================================================================
