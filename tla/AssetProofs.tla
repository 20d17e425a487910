---------------------------- MODULE AssetProofs ----------------------------
(***************************************************************************)
(* Proofs about the assets that a node owns, for any number of callers,    *)
(* generations, reruns of the job and restarts: the barriers of the cold   *)
(* queue, that an asset is handed out once, that ids are not reserved      *)
(* twice but for those that a store forgets, and that a store which is up  *)
(* holds assets of its configuration only.                                 *)
(*                                                                         *)
(* AssetInv says where an asset may be: every one in memory or in a        *)
(* caller's hands is in the database, in one place, and its id was neither *)
(* used nor marked for removal; the ids of the generations under way are   *)
(* nobody else's; and in a store that is up the last id is an upper bound  *)
(* of the ids of this second, or all ids are of earlier ones.              *)
(***************************************************************************)
EXTENDS Assets, FiniteSetTheorems, SequenceTheorems, TLAPS

Ids == Nat \X Nat
Configs == [epoch : Nat, keys : [all_participants -> Nat]]
Generations == [start : Ids, participants : SUBSET all_participants, added : 0 .. batch_size - 1]
Queues(S) == [queue : Seq(S), ready : Nat, available : Nat, last : SUBSET all_participants]

Elems(s) == {s[i] : i \in DOMAIN s}
Distinct(s) == \A i, j \in DOMAIN s : s[i] = s[j] => i = j

\* The cold queue and its barriers.
ColdOK(q, S) ==
    /\ q \in Queues(S)
    /\ q.ready <= q.available /\ q.available <= Len(q.queue)
    /\ \A i \in 1 .. q.ready : condition(q.last, q.queue[i])
    /\ \A i \in q.available + 1 .. Len(q.queue) : ~ condition(q.last, q.queue[i])

StoreTypeOK ==
    /\ clock \in Nat /\ running \in {"down", "cleaned", "running"}
    /\ alive \subseteq all_participants
    /\ last_id \in Ids \cup {NoId}
    /\ config \in Configs /\ db_epoch_data \in Configs \cup {NoConfig}
    /\ issued \subseteq Ids /\ used \subseteq issued
    /\ in_flight \subseteq Generations
    /\ DOMAIN takers = Takers
    /\ discarding \in [left : Nat, removed : SUBSET issued, hot : BOOLEAN, on : BOOLEAN]

DbInv ==
    /\ IsFiniteSet(db)
    /\ \A a \in db : a.id \in issued \ used /\ a.participants \subseteq all_participants
    /\ \A a, b \in db : a.id = b.id => a = b

\* An asset was made in this configuration.
Matches(a, c) == /\ a.made_with.epoch = c.epoch
                 /\ \A p \in a.participants : a.made_with.keys[p] = c.keys[p]

ConfigInv ==
    /\ running # "down" => \A a \in db : Matches(a, config)
    /\ \A a \in db : db_epoch_data # NoConfig /\ Matches(a, db_epoch_data)
    /\ running = "running" => db_epoch_data = config

IdsInv ==
    /\ \A i \in issued : i[1] <= clock
    /\ running = "running" /\ last_id = NoId => \A i \in issued : i[1] < clock
    /\ last_id # NoId => /\ last_id[1] <= clock
                         /\ \A i \in issued : i[1] = clock =>
                               last_id[1] = clock /\ i[2] <= last_id[2]

\* The ids that a generation has not added yet.
Pending(g) == {add_to_counter(g.start, i) : i \in g.added .. batch_size - 1}

FlightInv ==
    /\ \A g \in in_flight : /\ Pending(g) \subseteq issued \ used
                            /\ Pending(g) \cap discarding.removed = {}
                            /\ \A a \in db : a.id \notin Pending(g)
    /\ \A g, h \in in_flight : g # h => Pending(g) \cap Pending(h) = {}

\* Where assets are: in one queue, or in one caller's hands, and in the database.
MemoryInv ==
    /\ hot \in Seq(db) /\ Distinct(hot)
    /\ ColdOK(cold, db) /\ Distinct(cold.queue)
    /\ Elems(hot) \cap Elems(cold.queue) = {}
    /\ \A a \in Elems(hot) \cup Elems(cold.queue) : a.id \notin discarding.removed

HasOne(t) == takers[t].pc = "taken"

HandsInv ==
    /\ \A t \in Takers : HasOne(t) => /\ takers[t].asset \in db
                                      /\ takers[t].asset \notin Elems(hot) \cup Elems(cold.queue)
                                      /\ takers[t].asset.id \notin discarding.removed
    /\ \A t, u \in Takers : HasOne(t) /\ HasOne(u) /\ takers[t].asset = takers[u].asset => t = u

\* A store that is not up holds nothing.
DownInv ==
    running # "running" =>
        /\ hot = <<>> /\ cold = EmptyCold /\ in_flight = {} /\ last_id = NoId
        /\ discarding = NotDiscarding
        /\ \A t \in Takers : takers[t].pc = "idle"

AssetInv ==
    /\ StoreTypeOK /\ DbInv /\ ConfigInv /\ IdsInv /\ FlightInv
    /\ MemoryInv /\ HandsInv /\ DownInv

-----------------------------------------------------------------------------
(* Queues.                                                                 *)

\* The first element leaves a queue.
LEMMA TailElems ==
  ASSUME NEW S, NEW s \in Seq(S), s # <<>>, Distinct(s)
  PROVE  /\ Tail(s) \in Seq(S) /\ Len(Tail(s)) = Len(s) - 1 /\ Len(s) \in Nat /\ Len(s) > 0
         /\ \A i \in 1 .. Len(s) - 1 : Tail(s)[i] = s[i + 1]
         /\ Distinct(Tail(s)) /\ Elems(Tail(s)) = Elems(s) \ {Head(s)}
         /\ Head(s) = s[1] /\ Head(s) \in S /\ Head(s) \in Elems(s)
  <1> DEFINE t == Tail(s)
             n == Len(s)
  <1>1. /\ n \in Nat /\ n > 0 /\ DOMAIN s = 1 .. n /\ Head(s) = s[1] /\ s[1] \in S
        /\ t \in Seq(S) /\ Len(t) = n - 1 /\ DOMAIN t = 1 .. n - 1
        /\ \A i \in 1 .. n - 1 : t[i] = s[i + 1]
    <2>1. /\ Head(s) \in S /\ t \in Seq(S) /\ Len(t) = n - 1 /\ \A i \in 1 .. n - 1 : t[i] = s[i + 1]
          /\ n \in Nat /\ n > 0 /\ DOMAIN s = 1 .. n
      BY HeadTailProperties, LenProperties, EmptySeq
    <2>2. DOMAIN t = 1 .. n - 1
      BY <2>1, LenProperties
    <2>3. Head(s) = s[1]
      BY <2>1
    <2>4. QED
      BY <2>1, <2>2, <2>3
  <1> HIDE DEF t, n
  <1>2. Distinct(t)
    <2> SUFFICES ASSUME NEW i \in 1 .. n - 1, NEW j \in 1 .. n - 1, t[i] = t[j] PROVE i = j
      BY <1>1 DEF Distinct
    <2>1. i + 1 \in 1 .. n /\ j + 1 \in 1 .. n /\ s[i + 1] = s[j + 1]
      BY <1>1
    <2>2. i + 1 = j + 1
      BY <1>1, <2>1 DEF Distinct
    <2>3. QED
      BY <1>1, <2>2
  <1>3. \A x \in Elems(s) : x # s[1] => x \in Elems(t)
    <2> SUFFICES ASSUME NEW i \in 1 .. n, s[i] # s[1] PROVE s[i] \in Elems(t)
      BY <1>1 DEF Elems
    <2>1. i - 1 \in 1 .. n - 1 /\ t[i - 1] = s[i]
      BY <1>1
    <2>2. QED
      BY <1>1, <2>1 DEF Elems
  <1>4. \A x \in Elems(t) : x \in Elems(s) /\ x # s[1]
    <2> SUFFICES ASSUME NEW i \in 1 .. n - 1 PROVE t[i] \in Elems(s) /\ t[i] # s[1]
      BY <1>1 DEF Elems
    <2>1. i + 1 \in 1 .. n /\ 1 \in 1 .. n /\ t[i] = s[i + 1] /\ i + 1 # 1
      BY <1>1
    <2>2. QED
      BY <1>1, <2>1 DEF Elems, Distinct
  <1>5. s[1] \in Elems(s)
    BY <1>1 DEF Elems
  <1>6. QED
    BY <1>1, <1>2, <1>3, <1>4, <1>5 DEF t, n

\* The last one does.
LEMMA FrontElems ==
  ASSUME NEW S, NEW s \in Seq(S), s # <<>>, Distinct(s)
  PROVE  /\ Front(s) \in Seq(S) /\ Len(Front(s)) = Len(s) - 1 /\ Len(s) \in Nat /\ Len(s) > 0
         /\ \A i \in 1 .. Len(s) - 1 : Front(s)[i] = s[i]
         /\ Distinct(Front(s)) /\ Elems(Front(s)) = Elems(s) \ {Last(s)}
         /\ Last(s) = s[Len(s)] /\ Last(s) \in S /\ Last(s) \in Elems(s)
  <1> DEFINE f == Front(s)
             n == Len(s)
  <1>1. n \in Nat /\ n > 0 /\ DOMAIN s = 1 .. n /\ \A i \in 1 .. n : s[i] \in S
    BY LenProperties, EmptySeq, ElementOfSeq
  <1>2. f \in Seq(S) /\ Len(f) = n - 1 /\ \A i \in 1 .. n - 1 : f[i] = s[i]
    <2>1. \A i \in 1 .. n - 1 : s[i] \in S
      BY <1>1
    <2>2. /\ f \in Seq(S) /\ Len(f) = IF 1 <= n - 1 THEN (n - 1) - 1 + 1 ELSE 0
          /\ \A i \in 1 .. (n - 1) - 1 + 1 : f[i] = s[1 + i - 1]
      BY <1>1, <2>1, SubSeqProperties DEF Front
    <2>3. \A i \in 1 .. n - 1 : i \in 1 .. (n - 1) - 1 + 1 /\ 1 + i - 1 = i
      BY <1>1
    <2> HIDE DEF f, n
    <2>4. QED
      BY <1>1, <2>2, <2>3
  <1>3. DOMAIN f = 1 .. n - 1
    BY <1>2, LenProperties
  <1>4. Last(s) = s[n]
    BY DEF Last
  <1> HIDE DEF f, n
  <1>5. Distinct(f)
    BY <1>1, <1>2, <1>3 DEF Distinct
  <1>6. \A x \in Elems(s) : x # s[n] => x \in Elems(f)
    <2> SUFFICES ASSUME NEW i \in 1 .. n, s[i] # s[n] PROVE s[i] \in Elems(f)
      BY <1>1 DEF Elems
    <2>1. i \in 1 .. n - 1 /\ f[i] = s[i]
      BY <1>1, <1>2
    <2>2. QED
      BY <1>3, <2>1 DEF Elems
  <1>7. \A x \in Elems(f) : x \in Elems(s) /\ x # s[n]
    <2> SUFFICES ASSUME NEW i \in 1 .. n - 1 PROVE f[i] \in Elems(s) /\ f[i] # s[n]
      BY <1>3 DEF Elems
    <2>1. i \in 1 .. n /\ n \in 1 .. n /\ f[i] = s[i] /\ i # n
      BY <1>1, <1>2
    <2>2. QED
      BY <1>1, <2>1 DEF Elems, Distinct
  <1>8. s[n] \in Elems(s) /\ s[n] \in S
    <2>1. n \in 1 .. n
      BY <1>1
    <2>2. QED
      BY <1>1, <2>1 DEF Elems
  <1>9. QED
    BY <1>1, <1>2, <1>4, <1>5, <1>6, <1>7, <1>8 DEF f, n

\* An element is added at the end.
LEMMA AppendElems ==
  ASSUME NEW S, NEW s \in Seq(S), Distinct(s), NEW x \in S, x \notin Elems(s)
  PROVE  /\ Append(s, x) \in Seq(S) /\ Len(Append(s, x)) = Len(s) + 1 /\ Len(s) \in Nat
         /\ \A i \in 1 .. Len(s) : Append(s, x)[i] = s[i]
         /\ Append(s, x)[Len(s) + 1] = x
         /\ Distinct(Append(s, x)) /\ Elems(Append(s, x)) = Elems(s) \cup {x}
  <1> DEFINE r == Append(s, x)
             n == Len(s)
  <1>1. /\ n \in Nat /\ DOMAIN s = 1 .. n
        /\ r \in Seq(S) /\ Len(r) = n + 1 /\ DOMAIN r = 1 .. n + 1
        /\ \A i \in 1 .. n : r[i] = s[i]
        /\ r[n + 1] = x
    BY LenProperties, AppendProperties
  <1> HIDE DEF r, n
  <1>2. \A i \in 1 .. n : s[i] # x
    BY <1>1 DEF Elems
  <1>3. Distinct(r)
    BY <1>1, <1>2 DEF Distinct
  <1>4. \A y \in Elems(r) : y \in Elems(s) \cup {x}
    BY <1>1 DEF Elems
  <1>5. \A y \in Elems(s) : y \in Elems(r)
    <2> SUFFICES ASSUME NEW i \in 1 .. n PROVE s[i] \in Elems(r)
      BY <1>1 DEF Elems
    <2>1. i \in 1 .. n + 1 /\ r[i] = s[i]
      BY <1>1
    <2>2. QED
      BY <1>1, <2>1 DEF Elems
  <1>6. x \in Elems(r)
    <2>1. n + 1 \in 1 .. n + 1
      BY <1>1
    <2>2. QED
      BY <1>1, <2>1 DEF Elems
  <1>7. QED
    BY <1>1, <1>3, <1>4, <1>5, <1>6 DEF r, n

\* An element is added at the front.
LEMMA ConsElems ==
  ASSUME NEW S, NEW s \in Seq(S), Distinct(s), NEW x \in S, x \notin Elems(s)
  PROVE  /\ <<x>> \o s \in Seq(S) /\ Len(<<x>> \o s) = Len(s) + 1 /\ Len(s) \in Nat
         /\ (<<x>> \o s)[1] = x
         /\ \A i \in 1 .. Len(s) : (<<x>> \o s)[i + 1] = s[i]
         /\ Distinct(<<x>> \o s) /\ Elems(<<x>> \o s) = Elems(s) \cup {x}
  <1> DEFINE r == <<x>> \o s
             n == Len(s)
  <1>1. n \in Nat /\ DOMAIN s = 1 .. n
    BY LenProperties
  <1>2. /\ r \in Seq(S) /\ Len(r) = n + 1
        /\ r[1] = x
        /\ \A i \in 1 .. n : r[i + 1] = s[i]
    <2> DEFINE o == <<x>>
    <2>1. o \in Seq(S) /\ Len(o) = 1 /\ o[1] = x
      OBVIOUS
    <2> HIDE DEF o, n
    <2>2. /\ o \o s \in Seq(S) /\ Len(o \o s) = 1 + n
          /\ \A i \in 1 .. 1 + n : (o \o s)[i] = IF i <= 1 THEN o[i] ELSE s[i - 1]
      <3>1. /\ o \o s \in Seq(S) /\ Len(o \o s) = Len(o) + Len(s)
            /\ \A i \in 1 .. Len(o) + Len(s) :
                  (o \o s)[i] = IF i <= Len(o) THEN o[i] ELSE s[i - Len(o)]
        BY <2>1, ConcatProperties
      <3>2. QED
        BY <2>1, <3>1 DEF n
    <2>3. (o \o s)[1] = x
      BY <1>1, <2>1, <2>2
    <2>4. ASSUME NEW i \in 1 .. n PROVE (o \o s)[i + 1] = s[i]
      <3>1. i + 1 \in 1 .. 1 + n /\ ~ (i + 1 <= 1) /\ (i + 1) - 1 = i
        BY <1>1
      <3>2. QED
        BY <2>2, <3>1
    <2>5. QED
      BY <1>1, <2>2, <2>3, <2>4 DEF o, n
  <1>3. DOMAIN r = 1 .. n + 1
    BY <1>2, LenProperties
  <1> HIDE DEF r, n
  <1>4. \A i \in 1 .. n : s[i] # x
    BY <1>1 DEF Elems
  <1>5. \A j \in 1 .. n + 1 : j # 1 => j - 1 \in 1 .. n /\ r[j] = s[j - 1]
    <2> SUFFICES ASSUME NEW j \in 1 .. n + 1, j # 1 PROVE j - 1 \in 1 .. n /\ r[j] = s[j - 1]
      OBVIOUS
    <2>1. j - 1 \in 1 .. n /\ (j - 1) + 1 = j
      BY <1>1
    <2>2. QED
      BY <1>2, <2>1
  <1>6. Distinct(r)
    <2> SUFFICES ASSUME NEW i \in 1 .. n + 1, NEW j \in 1 .. n + 1, r[i] = r[j] PROVE i = j
      BY <1>3 DEF Distinct
    <2>1. CASE i = 1 \/ j = 1
      BY <1>2, <1>4, <1>5, <2>1
    <2>2. CASE i # 1 /\ j # 1
      <3>1. i - 1 = j - 1
        BY <1>1, <1>5, <2>2 DEF Distinct
      <3>2. QED
        BY <1>1, <3>1
    <2>3. QED
      BY <2>1, <2>2
  <1>7. \A y \in Elems(r) : y \in Elems(s) \cup {x}
    <2> SUFFICES ASSUME NEW i \in 1 .. n + 1 PROVE r[i] \in Elems(s) \cup {x}
      BY <1>3 DEF Elems
    <2>1. QED
      BY <1>1, <1>2, <1>5 DEF Elems
  <1>8. \A y \in Elems(s) : y \in Elems(r)
    <2> SUFFICES ASSUME NEW i \in 1 .. n PROVE s[i] \in Elems(r)
      BY <1>1 DEF Elems
    <2>1. i + 1 \in 1 .. n + 1 /\ r[i + 1] = s[i]
      BY <1>1, <1>2
    <2>2. QED
      BY <1>3, <2>1 DEF Elems
  <1>9. x \in Elems(r)
    <2>1. 1 \in 1 .. n + 1
      BY <1>1
    <2>2. QED
      BY <1>2, <1>3, <2>1 DEF Elems
  <1>10. QED
    BY <1>1, <1>2, <1>6, <1>7, <1>8, <1>9 DEF r, n

\* The elements of a queue are what it is a queue of.
LEMMA ElemsIn ==
  ASSUME NEW S, NEW s \in Seq(S)
  PROVE  Elems(s) \subseteq S
  BY LenProperties, ElementOfSeq DEF Elems

\* A queue is a queue of whatever holds all its elements.
LEMMA QueueOf ==
  ASSUME NEW S, NEW s \in Seq(S), NEW T, Elems(s) \subseteq T
  PROVE  s \in Seq(T)
  <1>1. Len(s) \in Nat /\ DOMAIN s = 1 .. Len(s) /\ s \in [1 .. Len(s) -> S]
    BY LenProperties
  <1>2. \A i \in 1 .. Len(s) : s[i] \in T
    BY <1>1 DEF Elems
  <1>3. s \in [1 .. Len(s) -> T]
    BY <1>1, <1>2
  <1>4. QED
    BY <1>1, <1>3

-----------------------------------------------------------------------------
(* The cold queue.                                                         *)

\* A cold queue with other contents.
ColdWith(q, av, rd, qu) == [q EXCEPT !.available = av, !.ready = rd, !.queue = qu]

\* Only its contents and barriers differ.
LEMMA ColdFields ==
  ASSUME NEW S, NEW q \in Queues(S), NEW av \in Nat, NEW rd \in Nat, NEW qu \in Seq(S)
  PROVE  /\ ColdWith(q, av, rd, qu) \in Queues(S)
         /\ ColdWith(q, av, rd, qu).available = av /\ ColdWith(q, av, rd, qu).ready = rd
         /\ ColdWith(q, av, rd, qu).queue = qu /\ ColdWith(q, av, rd, qu).last = q.last
  BY DEF Queues, ColdWith

\* The condition is fetched anew: nothing is known of any element.
LEMMA UpdatedCold ==
  ASSUME NEW S, NEW q, ColdOK(q, S), alive \subseteq all_participants
  PROVE  /\ ColdOK(update_condition_value(q), S)
         /\ update_condition_value(q).queue = q.queue
  <1>1. CASE alive = q.last
    BY <1>1 DEF update_condition_value
  <1>2. CASE alive # q.last
    <2> DEFINE r == [q EXCEPT !.last = alive, !.ready = 0, !.available = Len(q.queue)]
    <2>1. q \in Queues(S) /\ q.queue \in Seq(S) /\ Len(q.queue) \in Nat
      BY LenProperties DEF ColdOK, Queues
    <2>2. /\ r \in Queues(S) /\ r.queue = q.queue /\ r.ready = 0 /\ r.available = Len(q.queue)
          /\ r.last = alive
      BY <2>1 DEF Queues
    <2>3. update_condition_value(q) = r
      BY <1>2 DEF update_condition_value
    <2> HIDE DEF r
    <2>4. ColdOK(r, S)
      BY <2>1, <2>2 DEF ColdOK
    <2>5. QED
      BY <2>2, <2>3, <2>4
  <1>3. QED
    BY <1>1, <1>2

\* The same with update_condition_value_if_due.
LEMMA IfDueCold ==
  ASSUME NEW S, ColdOK(cold, S), alive \subseteq all_participants, NEW q \in IfDue(cold)
  PROVE  ColdOK(q, S) /\ q.queue = cold.queue
  BY UpdatedCold DEF IfDue

\* take: the element at the head is used, or goes behind the barrier.
LEMMA TakeCold ==
  ASSUME NEW S, NEW q, ColdOK(q, S), Distinct(q.queue), q.available # 0, NoAsset \notin S
  PROVE  /\ ColdOK(AfterTake(q), S) /\ Distinct(AfterTake(q).queue)
         /\ Taken(q) = NoAsset => Elems(AfterTake(q).queue) = Elems(q.queue)
         /\ Taken(q) # NoAsset => /\ Taken(q) \in Elems(q.queue) /\ Taken(q) \in S
                                  /\ Elems(AfterTake(q).queue) = Elems(q.queue) \ {Taken(q)}
  <1> DEFINE s == q.queue
             n == Len(s)
             av == q.available - 1
             rd == IF q.ready > 0 THEN q.ready - 1 ELSE q.ready
             qu == IF Taken(q) = NoAsset THEN Append(Tail(s), Head(s)) ELSE Tail(s)
             r == ColdWith(q, av, rd, qu)
  <1>1. /\ q \in Queues(S) /\ s \in Seq(S) /\ q.ready \in Nat /\ q.available \in Nat /\ n \in Nat
        /\ q.ready <= q.available /\ q.available <= n
        /\ \A i \in 1 .. q.ready : condition(q.last, s[i])
        /\ \A i \in q.available + 1 .. n : ~ condition(q.last, s[i])
    BY LenProperties DEF ColdOK, Queues
  <1>2. s # <<>> /\ n > 0
    BY <1>1, EmptySeq
  <1>3. AfterTake(q) = r
    BY <1>1 DEF AfterTake, ColdWith, Queues
  <1>4. /\ Tail(s) \in Seq(S) /\ Len(Tail(s)) = n - 1
        /\ \A i \in 1 .. n - 1 : Tail(s)[i] = s[i + 1]
        /\ Distinct(Tail(s)) /\ Elems(Tail(s)) = Elems(s) \ {Head(s)}
        /\ Head(s) = s[1] /\ Head(s) \in S /\ Head(s) \in Elems(s)
    BY <1>1, <1>2, TailElems
  <1>5. /\ Taken(q) = Head(s) \/ Taken(q) = NoAsset
        /\ Taken(q) # NoAsset <=> q.ready > 0 \/ condition(q.last, Head(s))
    BY <1>4 DEF Taken
  <1>6. av \in Nat /\ rd \in Nat /\ rd <= av
    BY <1>1
  <1>7. /\ qu \in Seq(S) /\ Distinct(qu) /\ n - 1 <= Len(qu)
        /\ \A i \in 1 .. n - 1 : qu[i] = s[i + 1]
        /\ Taken(q) # NoAsset => Len(qu) = n - 1 /\ Elems(qu) = Elems(s) \ {Head(s)}
        /\ Taken(q) = NoAsset => Len(qu) = n /\ qu[n] = Head(s) /\ Elems(qu) = Elems(s)
    <2>1. CASE Taken(q) # NoAsset
      BY <1>1, <1>2, <1>4, <2>1
    <2>2. CASE Taken(q) = NoAsset
      <3> DEFINE t == Tail(s)
                 x == Head(s)
      <3>1. t \in Seq(S) /\ Distinct(t) /\ x \in S /\ x \notin Elems(t)
        BY <1>4
      <3>2. qu = Append(t, x)
        BY <2>2
      <3>3. /\ Len(t) = n - 1 /\ \A i \in 1 .. n - 1 : t[i] = s[i + 1]
            /\ Elems(t) = Elems(s) \ {x} /\ x \in Elems(s)
        BY <1>4
      <3> HIDE DEF t, x, qu
      <3>4. /\ qu \in Seq(S) /\ Len(qu) = Len(t) + 1 /\ Len(t) \in Nat
            /\ \A i \in 1 .. Len(t) : qu[i] = t[i]
            /\ qu[Len(t) + 1] = x
            /\ Distinct(qu) /\ Elems(qu) = Elems(t) \cup {x}
        BY <3>1, <3>2, AppendElems
      <3>5. (n - 1) + 1 = n
        BY <1>1
      <3>6. qu[n] = x /\ Len(qu) = n
        BY <3>3, <3>4, <3>5
      <3>7. Elems(qu) = Elems(s)
        BY <3>3, <3>4
      <3>8. \A i \in 1 .. n - 1 : qu[i] = s[i + 1]
        BY <3>3, <3>4
      <3>9. n - 1 <= Len(qu)
        BY <1>1, <3>6
      <3>10. QED
        BY <2>2, <3>4, <3>6, <3>7, <3>8, <3>9 DEF x
    <2>3. QED
      BY <2>1, <2>2
  <1> HIDE DEF qu
  <1>8. /\ r \in Queues(S) /\ r.available = av /\ r.ready = rd /\ r.queue = qu /\ r.last = q.last
    <2> HIDE DEF av, rd
    <2>1. q \in Queues(S) /\ av \in Nat /\ rd \in Nat /\ qu \in Seq(S)
      BY <1>1, <1>6, <1>7
    <2>2. QED
      BY <2>1, ColdFields
  <1> HIDE DEF r
  <1>9. \A i \in 1 .. rd : condition(q.last, qu[i])
    <2> SUFFICES ASSUME NEW i \in 1 .. rd PROVE condition(q.last, qu[i])
      OBVIOUS
    <2>1. i + 1 \in 1 .. q.ready /\ i \in 1 .. n - 1
      BY <1>1
    <2>2. QED
      BY <1>1, <1>7, <2>1
  <1>10. \A i \in av + 1 .. Len(qu) : ~ condition(q.last, qu[i])
    <2> SUFFICES ASSUME NEW i \in av + 1 .. Len(qu) PROVE ~ condition(q.last, qu[i])
      OBVIOUS
    <2>1. Len(qu) = n - 1 \/ Len(qu) = n
      BY <1>7
    <2>2. CASE i <= n - 1
      <3>1. i + 1 \in q.available + 1 .. n /\ i \in 1 .. n - 1
        BY <1>1, <2>1, <2>2
      <3>2. QED
        BY <1>1, <1>7, <3>1
    <2>3. CASE ~ (i <= n - 1)
      <3>1. i = n /\ Len(qu) = n
        BY <1>1, <2>1, <2>3
      <3>2. Taken(q) = NoAsset
        BY <1>1, <1>7, <3>1
      <3>3. QED
        BY <1>5, <1>7, <3>1, <3>2
    <2>4. QED
      BY <2>2, <2>3
  <1>11. av <= Len(qu)
    <2>1. Len(qu) \in Nat
      BY <1>7, LenProperties
    <2>2. QED
      BY <1>1, <1>7, <2>1
  <1>12. ColdOK(r, S)
    BY <1>6, <1>8, <1>9, <1>10, <1>11 DEF ColdOK
  <1>13. QED
    BY <1>3, <1>4, <1>5, <1>7, <1>8, <1>12

\* discard: the element at the end is of use and goes to the front, or is thrown
\* away.
LEMMA DiscardCold ==
  ASSUME NEW S, NEW q, ColdOK(q, S), Distinct(q.queue), q.ready # Len(q.queue), NoAsset \notin S
  PROVE  /\ ColdOK(AfterDiscard(q), S) /\ Distinct(AfterDiscard(q).queue)
         /\ Discarded(q) = NoAsset => Elems(AfterDiscard(q).queue) = Elems(q.queue)
         /\ Discarded(q) # NoAsset => /\ Discarded(q) \in Elems(q.queue) /\ Discarded(q) \in S
                                      /\ Elems(AfterDiscard(q).queue) = Elems(q.queue) \ {Discarded(q)}
  <1> DEFINE s == q.queue
             n == Len(s)
             f == Front(s)
             x == Last(s)
  <1>1. /\ q \in Queues(S) /\ s \in Seq(S) /\ q.ready \in Nat /\ q.available \in Nat /\ n \in Nat
        /\ q.ready <= q.available /\ q.available <= n /\ q.ready # n
        /\ \A i \in 1 .. q.ready : condition(q.last, s[i])
        /\ \A i \in q.available + 1 .. n : ~ condition(q.last, s[i])
    BY LenProperties DEF ColdOK, Queues
  <1>2. s # <<>> /\ n > 0
    BY <1>1, EmptySeq
  <1>3. /\ f \in Seq(S) /\ Len(f) = n - 1
        /\ \A i \in 1 .. n - 1 : f[i] = s[i]
        /\ Distinct(f) /\ Elems(f) = Elems(s) \ {x}
        /\ x = s[n] /\ x \in S /\ x \in Elems(s)
    BY <1>1, <1>2, FrontElems
  <1>4. Discarded(q) = IF q.available = n /\ condition(q.last, x) THEN NoAsset ELSE x
    BY DEF Discarded
  <1>5. CASE q.available = n /\ condition(q.last, x)
    <2> DEFINE qu == <<x>> \o f
               rd == q.ready + 1
               av == q.available
               r == ColdWith(q, av, rd, qu)
    <2>1. Discarded(q) = NoAsset /\ AfterDiscard(q) = r
      BY <1>1, <1>4, <1>5 DEF AfterDiscard, ColdWith, Queues
    <2> HIDE DEF f, x
    <2>2. x \notin Elems(f)
      BY <1>3
    <2>3. /\ qu \in Seq(S) /\ Len(qu) = Len(f) + 1 /\ qu[1] = x
          /\ \A i \in 1 .. Len(f) : qu[i + 1] = f[i]
          /\ Distinct(qu) /\ Elems(qu) = Elems(f) \cup {x}
      BY <1>3, <2>2, ConsElems
    <2> HIDE DEF qu
    <2>4. Len(qu) = n /\ Elems(qu) = Elems(s)
      BY <1>1, <1>3, <2>3
    <2>5. /\ r \in Queues(S) /\ r.available = q.available /\ r.ready = q.ready + 1 /\ r.queue = qu
          /\ r.last = q.last
      <3>1. rd \in Nat /\ rd = q.ready + 1 /\ av = q.available
        BY <1>1
      <3> HIDE DEF rd, av
      <3>2. q \in Queues(S) /\ av \in Nat /\ rd \in Nat /\ qu \in Seq(S)
        BY <1>1, <2>3, <3>1
      <3>3. /\ r \in Queues(S) /\ r.available = av /\ r.ready = rd /\ r.queue = qu
            /\ r.last = q.last
        BY <3>2, ColdFields
      <3>4. QED
        BY <3>1, <3>3
    <2> HIDE DEF r
    <2>6. \A i \in 1 .. q.ready + 1 : condition(q.last, qu[i])
      <3> SUFFICES ASSUME NEW i \in 1 .. q.ready + 1 PROVE condition(q.last, qu[i])
        OBVIOUS
      <3>1. CASE i = 1
        BY <1>5, <2>3, <3>1
      <3>2. CASE i # 1
        <4>1. i - 1 \in 1 .. q.ready /\ i - 1 \in 1 .. n - 1 /\ (i - 1) + 1 = i
          BY <1>1, <3>2
        <4>2. qu[i] = s[i - 1]
          BY <1>3, <2>3, <4>1
        <4>3. QED
          BY <1>1, <4>1, <4>2
      <3>3. QED
        BY <3>1, <3>2
    <2>7. ColdOK(r, S)
      BY <1>1, <1>5, <2>4, <2>5, <2>6 DEF ColdOK
    <2>8. QED
      BY <2>1, <2>3, <2>4, <2>5, <2>7
  <1>6. CASE ~ (q.available = n /\ condition(q.last, x))
    <2> DEFINE av == IF q.available = n THEN q.available - 1 ELSE q.available
               r == [q EXCEPT !.available = av, !.queue = f]
    <2>0. x # NoAsset
      BY <1>3
    <2>1. Discarded(q) = x /\ AfterDiscard(q) = r
      BY <1>4, <1>6, <2>0 DEF AfterDiscard
    <2> HIDE DEF f, x
    <2>2. av \in Nat /\ q.ready <= av /\ av <= n - 1
      BY <1>1, <1>2
    <2>3. /\ r \in Queues(S) /\ r.available = av /\ r.ready = q.ready /\ r.queue = f
          /\ r.last = q.last
      <3> HIDE DEF av
      <3>1. QED
        BY <1>1, <1>3, <2>2 DEF Queues
    <2> HIDE DEF r
    <2>4. \A i \in 1 .. q.ready : condition(q.last, f[i])
      BY <1>1, <1>3, <2>2
    <2>5. \A i \in av + 1 .. n - 1 : ~ condition(q.last, f[i])
      <3> SUFFICES ASSUME NEW i \in av + 1 .. n - 1 PROVE ~ condition(q.last, f[i])
        OBVIOUS
      <3>1. i \in q.available + 1 .. n /\ i \in 1 .. n - 1
        BY <1>1, <2>2
      <3>2. QED
        BY <1>1, <1>3, <3>1
    <2>6. ColdOK(r, S)
      BY <1>3, <2>2, <2>3, <2>4, <2>5 DEF ColdOK
    <2>7. QED
      BY <1>3, <2>1, <2>3, <2>6
  <1>7. QED
    BY <1>5, <1>6

\* An element that satisfies the condition is added before the barriers ...
LEMMA AddReadyCold ==
  ASSUME NEW S, NEW q, ColdOK(q, S), Distinct(q.queue), NEW x \in S, x \notin Elems(q.queue),
         condition(q.last, x)
  PROVE  /\ ColdOK(AddedReady(q, x), S) /\ Distinct(AddedReady(q, x).queue)
         /\ Elems(AddedReady(q, x).queue) = Elems(q.queue) \cup {x}
  <1> DEFINE s == q.queue
             n == Len(s)
             qu == <<x>> \o s
             av == q.available + 1
             rd == q.ready + 1
             r == ColdWith(q, av, rd, qu)
  <1>1. /\ q \in Queues(S) /\ s \in Seq(S) /\ q.ready \in Nat /\ q.available \in Nat /\ n \in Nat
        /\ q.ready <= q.available /\ q.available <= n
        /\ \A i \in 1 .. q.ready : condition(q.last, s[i])
        /\ \A i \in q.available + 1 .. n : ~ condition(q.last, s[i])
    BY LenProperties DEF ColdOK, Queues
  <1>2. AddedReady(q, x) = r
    BY <1>1 DEF AddedReady, ColdWith, Queues
  <1>3. /\ qu \in Seq(S) /\ Len(qu) = n + 1 /\ qu[1] = x
        /\ \A i \in 1 .. n : qu[i + 1] = s[i]
        /\ Distinct(qu) /\ Elems(qu) = Elems(s) \cup {x}
    BY <1>1, ConsElems
  <1>4. av \in Nat /\ rd \in Nat /\ rd <= av /\ av <= n + 1
    BY <1>1
  <1> HIDE DEF qu
  <1>5. /\ r \in Queues(S) /\ r.available = av /\ r.ready = rd /\ r.queue = qu /\ r.last = q.last
    <2> HIDE DEF av, rd
    <2>1. q \in Queues(S) /\ av \in Nat /\ rd \in Nat /\ qu \in Seq(S)
      BY <1>1, <1>3, <1>4
    <2>2. QED
      BY <2>1, ColdFields
  <1> HIDE DEF r
  <1>6. \A i \in 1 .. n + 1 : i # 1 => qu[i] = s[i - 1]
    <2> SUFFICES ASSUME NEW i \in 1 .. n + 1, i # 1 PROVE qu[i] = s[i - 1]
      OBVIOUS
    <2>1. i - 1 \in 1 .. n /\ (i - 1) + 1 = i
      BY <1>1
    <2>2. QED
      BY <1>3, <2>1
  <1>7. \A i \in 1 .. rd : condition(q.last, qu[i])
    <2> SUFFICES ASSUME NEW i \in 1 .. rd PROVE condition(q.last, qu[i])
      OBVIOUS
    <2>1. CASE i = 1
      BY <1>3, <2>1
    <2>2. CASE i # 1
      <3>1. i - 1 \in 1 .. q.ready /\ i \in 1 .. n + 1
        BY <1>1, <2>2
      <3>2. QED
        BY <1>1, <1>6, <2>2, <3>1
    <2>3. QED
      BY <2>1, <2>2
  <1>8. \A i \in av + 1 .. n + 1 : ~ condition(q.last, qu[i])
    <2> SUFFICES ASSUME NEW i \in av + 1 .. n + 1 PROVE ~ condition(q.last, qu[i])
      OBVIOUS
    <2>1. i - 1 \in q.available + 1 .. n /\ i \in 1 .. n + 1 /\ i # 1
      BY <1>1
    <2>2. QED
      BY <1>1, <1>6, <2>1
  <1>9. ColdOK(r, S)
    BY <1>3, <1>4, <1>5, <1>7, <1>8 DEF ColdOK
  <1>10. QED
    BY <1>2, <1>3, <1>5, <1>9

\* ... and one that does not, behind them.
LEMMA AddOfflineCold ==
  ASSUME NEW S, NEW q, ColdOK(q, S), Distinct(q.queue), NEW x \in S, x \notin Elems(q.queue),
         ~ condition(q.last, x)
  PROVE  /\ ColdOK(AddedOffline(q, x), S) /\ Distinct(AddedOffline(q, x).queue)
         /\ Elems(AddedOffline(q, x).queue) = Elems(q.queue) \cup {x}
  <1> DEFINE s == q.queue
             n == Len(s)
             qu == Append(s, x)
             r == [q EXCEPT !.queue = qu]
  <1>1. /\ q \in Queues(S) /\ s \in Seq(S) /\ q.ready \in Nat /\ q.available \in Nat /\ n \in Nat
        /\ q.ready <= q.available /\ q.available <= n
        /\ \A i \in 1 .. q.ready : condition(q.last, s[i])
        /\ \A i \in q.available + 1 .. n : ~ condition(q.last, s[i])
    BY LenProperties DEF ColdOK, Queues
  <1>2. AddedOffline(q, x) = r
    BY DEF AddedOffline
  <1>3. /\ qu \in Seq(S) /\ Len(qu) = n + 1 /\ qu[n + 1] = x
        /\ \A i \in 1 .. n : qu[i] = s[i]
        /\ Distinct(qu) /\ Elems(qu) = Elems(s) \cup {x}
    BY <1>1, AppendElems
  <1> HIDE DEF qu
  <1>4. /\ r \in Queues(S) /\ r.available = q.available /\ r.ready = q.ready /\ r.queue = qu
        /\ r.last = q.last
    BY <1>1, <1>3 DEF Queues
  <1> HIDE DEF r
  <1>5. \A i \in 1 .. q.ready : condition(q.last, qu[i])
    BY <1>1, <1>3
  <1>6. \A i \in q.available + 1 .. n + 1 : ~ condition(q.last, qu[i])
    BY <1>1, <1>3
  <1>7. ColdOK(r, S)
    BY <1>1, <1>3, <1>4, <1>5, <1>6 DEF ColdOK
  <1>8. QED
    BY <1>2, <1>3, <1>4, <1>7

-----------------------------------------------------------------------------
(* Steps in memory.                                                        *)

\* The absence of an asset is none, and the absence of an id no id.
LEMMA NoneIsNone ==
  /\ NoId \notin Ids
  /\ DbInv /\ StoreTypeOK => NoAsset \notin db
  <1>1. NoId \notin Ids
    <2>1. \A x \in Ids : DOMAIN x = {1, 2}
      BY DEF Ids
    <2>2. DOMAIN NoId = {}
      BY DEF NoId
    <2>3. QED
      BY <2>1, <2>2
  <1>2. NoAsset.id = NoId
    BY DEF NoAsset
  <1>3. QED
    BY <1>1, <1>2 DEF DbInv, StoreTypeOK

\* What a step of one caller does to the callers.
LEMMA TakerGoes ==
  ASSUME StoreTypeOK, NEW t \in Takers, NEW pc, NEW x, Goes(t, pc, x)
  PROVE  /\ DOMAIN takers' = Takers /\ takers'[t].pc = pc /\ takers'[t].asset = x
         /\ \A u \in Takers : u # t => takers'[u] = takers[u]
  BY DEF StoreTypeOK, Goes

\* A caller that has no asset afterwards.
LEMMA HandsEmpty ==
  ASSUME StoreTypeOK, HandsInv, NEW t \in Takers, NEW pc, NEW x, Goes(t, pc, x), pc # "taken",
         \A u \in Takers : u # t /\ HasOne(u) => takers[u].asset \in db',
         Elems(hot') \cup Elems(cold'.queue) \subseteq Elems(hot) \cup Elems(cold.queue),
         discarding'.removed = discarding.removed
  PROVE  HandsInv'
  <1>1. /\ takers'[t].pc = pc /\ \A u \in Takers : u # t => takers'[u] = takers[u]
    BY TakerGoes
  <1>2. \A u \in Takers : takers'[u].pc = "taken" =>
           /\ u # t /\ takers'[u] = takers[u] /\ HasOne(u)
    BY <1>1 DEF HasOne
  <1>3. QED
    BY <1>2 DEF HandsInv, HasOne

\* A caller that takes an asset out of a queue.
LEMMA HandsTake ==
  ASSUME StoreTypeOK, MemoryInv, HandsInv, NEW t \in Takers, NEW x, Goes(t, "taken", x),
         x \in Elems(hot) \cup Elems(cold.queue), x \notin Elems(hot') \cup Elems(cold'.queue),
         Elems(hot') \cup Elems(cold'.queue) \subseteq Elems(hot) \cup Elems(cold.queue),
         x \in db, UNCHANGED <<db, discarding>>
  PROVE  HandsInv'
  <1>1. /\ takers'[t].pc = "taken" /\ takers'[t].asset = x
        /\ \A u \in Takers : u # t => takers'[u] = takers[u]
    BY TakerGoes
  <1>2. x.id \notin discarding.removed
    BY DEF MemoryInv
  <1>3. \A u \in Takers : u # t /\ takers'[u].pc = "taken" =>
           /\ takers'[u] = takers[u] /\ HasOne(u) /\ takers[u].asset # x
    BY <1>1 DEF HasOne, HandsInv
  <1>4. \A u \in Takers : takers'[u].pc = "taken" =>
           /\ takers'[u].asset \in db'
           /\ takers'[u].asset \notin Elems(hot') \cup Elems(cold'.queue)
           /\ takers'[u].asset.id \notin discarding'.removed
    <2> SUFFICES ASSUME NEW u \in Takers, takers'[u].pc = "taken"
                 PROVE  /\ takers'[u].asset \in db'
                        /\ takers'[u].asset \notin Elems(hot') \cup Elems(cold'.queue)
                        /\ takers'[u].asset.id \notin discarding'.removed
      OBVIOUS
    <2>1. CASE u = t
      BY <1>1, <1>2, <2>1
    <2>2. CASE u # t
      BY <1>3, <2>2 DEF HandsInv
    <2>3. QED
      BY <2>1, <2>2
  <1>5. \A u, v \in Takers :
           takers'[u].pc = "taken" /\ takers'[v].pc = "taken" /\ takers'[u].asset = takers'[v].asset => u = v
    <2> SUFFICES ASSUME NEW u \in Takers, NEW v \in Takers,
                        takers'[u].pc = "taken", takers'[v].pc = "taken",
                        takers'[u].asset = takers'[v].asset
                 PROVE  u = v
      OBVIOUS
    <2>1. CASE u = t \/ v = t
      BY <1>1, <1>3, <2>1
    <2>2. CASE u # t /\ v # t
      <3>1. HasOne(u) /\ HasOne(v) /\ takers[u].asset = takers[v].asset
        BY <1>3, <2>2
      <3>2. QED
        BY <3>1 DEF HandsInv
    <2>3. QED
      BY <2>1, <2>2
  <1>6. QED
    BY <1>4, <1>5 DEF HandsInv, HasOne

\* A step that moves assets in memory only.
LEMMA MemoryStep ==
  ASSUME AssetInv, running = "running",
         UNCHANGED <<db, db_epoch_data, config, running, clock, alive, last_id, in_flight, issued, used>>,
         MemoryInv', HandsInv', DOMAIN takers' = Takers,
         discarding' \in [left : Nat, removed : SUBSET issued, hot : BOOLEAN, on : BOOLEAN],
         \A i \in discarding'.removed : i \in discarding.removed \/ \E a \in db : a.id = i
  PROVE  AssetInv'
  <1>1. StoreTypeOK' /\ DbInv' /\ ConfigInv' /\ IdsInv'
    BY DEF AssetInv, StoreTypeOK, DbInv, ConfigInv, IdsInv, Matches
  <1>2. FlightInv'
    <2>1. \A g : Pending(g)' = Pending(g)
      BY DEF Pending
    <2>2. \A g \in in_flight : Pending(g) \cap discarding'.removed = {}
      BY DEF AssetInv, FlightInv
    <2>3. QED
      BY <2>1, <2>2 DEF AssetInv, FlightInv
  <1>3. QED
    BY <1>1, <1>2 DEF AssetInv, DownInv

\* take_owned begins, its wait ends, or its time is over.
LEMMA CallerKeeps ==
  ASSUME AssetInv, NEW t \in Takers, take_owned(t) \/ wait_ends(t) \/ cancel(t)
  PROVE  AssetInv'
  <1>1. /\ storeUnchanged /\ UNCHANGED <<db, hot, used>>
        /\ Goes(t, "take", NoAsset) \/ Goes(t, "idle", NoAsset)
        /\ cold' = cold \/ cold' = update_condition_value(cold)
    BY DEF take_owned, wait_ends, cancel
  <1>2. UNCHANGED <<db_epoch_data, config, running, clock, alive, last_id, in_flight, discarding, issued>>
    BY <1>1 DEF storeUnchanged
  <1>3. running = "running"
    BY DEF take_owned, wait_ends, cancel, AssetInv, DownInv
  <1>4. ColdOK(cold', db) /\ cold'.queue = cold.queue
    BY <1>1, UpdatedCold DEF AssetInv, MemoryInv, StoreTypeOK
  <1>5. MemoryInv'
    BY <1>1, <1>2, <1>4 DEF AssetInv, MemoryInv
  <1>6. HandsInv' /\ DOMAIN takers' = Takers
    <2>1. PICK pc \in {"take", "idle"} : Goes(t, pc, NoAsset)
      BY <1>1
    <2>2. StoreTypeOK /\ HandsInv /\ pc # "taken" /\ \A u \in Takers : HasOne(u) => takers[u].asset \in db'
      BY <1>1, <2>1 DEF AssetInv, HandsInv
    <2>3. /\ Elems(hot') \cup Elems(cold'.queue) \subseteq Elems(hot) \cup Elems(cold.queue)
          /\ discarding'.removed = discarding.removed
      BY <1>1, <1>2, <1>4
    <2>4. QED
      BY <2>1, <2>2, <2>3, HandsEmpty, TakerGoes
  <1>7. QED
    BY <1>1, <1>2, <1>3, <1>5, <1>6, MemoryStep DEF AssetInv, StoreTypeOK

\* take: an element of the cold queue is used, or goes to its end.
LEMMA TakeKeeps ==
  ASSUME AssetInv, NEW t \in Takers, NEW q \in IfDue(cold), take(t, q)
  PROVE  AssetInv'
  <1>1. /\ storeUnchanged /\ UNCHANGED <<db, hot, used>> /\ takers[t].pc = "take"
        /\ \/ q.available = 0 /\ cold' = q /\ Goes(t, "wait", NoAsset)
           \/ /\ q.available # 0 /\ cold' = AfterTake(q)
              /\ \/ Taken(q) = NoAsset /\ UNCHANGED takers
                 \/ Taken(q) # NoAsset /\ Goes(t, "taken", Taken(q))
    BY DEF take
  <1>2. UNCHANGED <<db_epoch_data, config, running, clock, alive, last_id, in_flight, discarding, issued>>
    BY <1>1 DEF storeUnchanged
  <1>3. running = "running"
    BY <1>1 DEF AssetInv, DownInv
  <1>4. StoreTypeOK /\ MemoryInv /\ HandsInv /\ NoAsset \notin db
    BY NoneIsNone DEF AssetInv
  <1>5. ColdOK(q, db) /\ q.queue = cold.queue /\ Distinct(q.queue)
    BY <1>4, IfDueCold DEF MemoryInv, StoreTypeOK
  <1>6. MemoryInv' /\ HandsInv' /\ DOMAIN takers' = Takers
    <2>1. CASE q.available = 0 /\ cold' = q /\ Goes(t, "wait", NoAsset)
      <3>1. MemoryInv'
        BY <1>1, <1>2, <1>4, <1>5, <2>1 DEF MemoryInv
      <3>2. /\ Elems(hot') \cup Elems(cold'.queue) \subseteq Elems(hot) \cup Elems(cold.queue)
            /\ discarding'.removed = discarding.removed
            /\ \A u \in Takers : HasOne(u) => takers[u].asset \in db'
        BY <1>1, <1>2, <1>4, <1>5, <2>1 DEF HandsInv
      <3>3. QED
        BY <1>4, <2>1, <3>1, <3>2, HandsEmpty, TakerGoes
    <2>2. CASE q.available # 0 /\ cold' = AfterTake(q)
      <3> DEFINE r == AfterTake(q)
      <3>1. /\ ColdOK(r, db) /\ Distinct(r.queue)
            /\ Taken(q) = NoAsset => Elems(r.queue) = Elems(q.queue)
            /\ Taken(q) # NoAsset => /\ Taken(q) \in Elems(q.queue) /\ Taken(q) \in db
                                     /\ Elems(r.queue) = Elems(q.queue) \ {Taken(q)}
        BY <1>4, <1>5, <2>2, TakeCold
      <3>2. cold' = r
        BY <2>2
      <3> HIDE DEF r
      <3>3. MemoryInv'
        <4>1. Elems(cold'.queue) \subseteq Elems(cold.queue)
          BY <1>5, <3>1, <3>2
        <4>2. QED
          BY <1>1, <1>2, <1>4, <3>1, <3>2, <4>1 DEF MemoryInv
      <3>4. CASE Taken(q) = NoAsset /\ UNCHANGED takers
        <4>1. Elems(cold'.queue) = Elems(cold.queue)
          BY <1>5, <3>1, <3>2, <3>4
        <4>2. HandsInv'
          BY <1>1, <1>2, <1>4, <3>4, <4>1 DEF HandsInv, HasOne
        <4>3. QED
          BY <1>4, <3>3, <3>4, <4>2 DEF StoreTypeOK
      <3>5. CASE Taken(q) # NoAsset /\ Goes(t, "taken", Taken(q))
        <4> DEFINE x == Taken(q)
        <4>1. /\ x \in Elems(hot) \cup Elems(cold.queue) /\ x \in db
              /\ x \notin Elems(hot') \cup Elems(cold'.queue)
              /\ Elems(hot') \cup Elems(cold'.queue) \subseteq Elems(hot) \cup Elems(cold.queue)
          BY <1>1, <1>4, <1>5, <3>1, <3>2, <3>5 DEF MemoryInv
        <4>2. Goes(t, "taken", x) /\ UNCHANGED <<db, discarding>>
          BY <1>1, <1>2, <3>5
        <4> HIDE DEF x
        <4>3. QED
          BY <1>4, <3>3, <4>1, <4>2, HandsTake, TakerGoes
      <3>6. QED
        BY <1>1, <2>2, <3>4, <3>5
    <2>3. QED
      BY <1>1, <2>1, <2>2
  <1>7. QED
    BY <1>1, <1>2, <1>3, <1>6, MemoryStep DEF AssetInv, StoreTypeOK

\* An element of the hot queue is used, or goes to the end of the cold queue.
LEMMA ReceiveHotKeeps ==
  ASSUME AssetInv, NEW t \in Takers, NEW q \in IfDue(cold), receive_hot(t, q)
  PROVE  AssetInv'
  <1> DEFINE x == Head(hot)
  <1>1. /\ storeUnchanged /\ UNCHANGED <<db, used>> /\ takers[t].pc = "wait"
        /\ hot # <<>> /\ hot' = Tail(hot)
        /\ \/ condition(q.last, x) /\ cold' = q /\ Goes(t, "taken", x)
           \/ ~ condition(q.last, x) /\ cold' = AddedOffline(q, x) /\ Goes(t, "take", NoAsset)
    BY DEF receive_hot
  <1>2. UNCHANGED <<db_epoch_data, config, running, clock, alive, last_id, in_flight, discarding, issued>>
    BY <1>1 DEF storeUnchanged
  <1>3. running = "running"
    BY <1>1 DEF AssetInv, DownInv
  <1>4. StoreTypeOK /\ MemoryInv /\ HandsInv
    BY DEF AssetInv
  <1>5. ColdOK(q, db) /\ q.queue = cold.queue /\ Distinct(q.queue)
    BY <1>4, IfDueCold DEF MemoryInv, StoreTypeOK
  <1>6. /\ hot' \in Seq(db) /\ Distinct(hot') /\ Elems(hot') = Elems(hot) \ {x}
        /\ x \in db /\ x \in Elems(hot)
    BY <1>1, <1>4, TailElems DEF MemoryInv
  <1>7. x \notin Elems(q.queue)
    BY <1>4, <1>5, <1>6 DEF MemoryInv
  <1> HIDE DEF x
  <1>8. MemoryInv' /\ HandsInv' /\ DOMAIN takers' = Takers
    <2>1. CASE condition(q.last, x) /\ cold' = q /\ Goes(t, "taken", x)
      <3>1. MemoryInv'
        BY <1>1, <1>2, <1>4, <1>5, <1>6, <2>1 DEF MemoryInv
      <3>2. /\ x \in Elems(hot) \cup Elems(cold.queue)
            /\ x \notin Elems(hot') \cup Elems(cold'.queue)
            /\ Elems(hot') \cup Elems(cold'.queue) \subseteq Elems(hot) \cup Elems(cold.queue)
        BY <1>5, <1>6, <1>7, <2>1
      <3>3. Goes(t, "taken", x) /\ UNCHANGED <<db, discarding>>
        BY <1>1, <1>2, <2>1
      <3>4. QED
        BY <1>4, <1>6, <3>1, <3>2, <3>3, HandsTake, TakerGoes
    <2>2. CASE ~ condition(q.last, x) /\ cold' = AddedOffline(q, x) /\ Goes(t, "take", NoAsset)
      <3>1. /\ ColdOK(cold', db) /\ Distinct(cold'.queue)
            /\ Elems(cold'.queue) = Elems(cold.queue) \cup {x}
        BY <1>5, <1>6, <1>7, <2>2, AddOfflineCold
      <3>2. MemoryInv'
        BY <1>1, <1>2, <1>4, <1>6, <3>1 DEF MemoryInv
      <3>3. /\ Elems(hot') \cup Elems(cold'.queue) \subseteq Elems(hot) \cup Elems(cold.queue)
            /\ discarding'.removed = discarding.removed
            /\ \A u \in Takers : HasOne(u) => takers[u].asset \in db'
        BY <1>1, <1>2, <1>4, <1>6, <3>1 DEF HandsInv
      <3>4. QED
        BY <1>4, <2>2, <3>2, <3>3, HandsEmpty, TakerGoes
    <2>3. QED
      BY <1>1, <2>1, <2>2 DEF x
  <1>9. QED
    BY <1>1, <1>2, <1>3, <1>8, MemoryStep DEF AssetInv, StoreTypeOK

-----------------------------------------------------------------------------
(* Discarding.                                                             *)

\* A step of the discard that leaves callers and their assets alone.
LEMMA HandsKept ==
  ASSUME HandsInv, MemoryInv, UNCHANGED <<db, takers>>,
         Elems(hot') \cup Elems(cold'.queue) \subseteq Elems(hot) \cup Elems(cold.queue),
         \A i \in discarding'.removed : i \in discarding.removed \/
              \A t \in Takers : HasOne(t) => takers[t].asset.id # i
  PROVE  HandsInv'
  BY DEF HandsInv, HasOne

\* maybe_discard_owned begins.
LEMMA DiscardBegins ==
  ASSUME AssetInv, maybe_discard_owned
  PROVE  AssetInv'
  <1>1. /\ UNCHANGED <<db, db_epoch_data, config, running, clock, alive, last_id, in_flight, issued, used>>
        /\ UNCHANGED <<hot, takers>> /\ running = "running" /\ cold' = update_condition_value(cold)
    BY DEF maybe_discard_owned
  <1>2. discarding' = [left |-> num_assets_to_process, removed |-> {}, hot |-> FALSE, on |-> TRUE]
    BY DEF maybe_discard_owned, NotDiscarding
  <1>3. ColdOK(cold', db) /\ cold'.queue = cold.queue
    BY <1>1, UpdatedCold DEF AssetInv, MemoryInv, StoreTypeOK
  <1>4. MemoryInv'
    BY <1>1, <1>2, <1>3 DEF AssetInv, MemoryInv
  <1>5. HandsInv'
    BY <1>1, <1>2, <1>3, HandsKept DEF AssetInv
  <1>6. DOMAIN takers' = Takers
    BY <1>1 DEF AssetInv, StoreTypeOK
  <1>7. /\ discarding' \in [left : Nat, removed : SUBSET issued, hot : BOOLEAN, on : BOOLEAN]
        /\ discarding'.removed = {}
    BY <1>2, AssetsAssumption
  <1>8. QED
    BY <1>1, <1>4, <1>5, <1>6, <1>7, MemoryStep

\* The next state of the discard.
Discarding(d, left, removed, hotToo) == [d EXCEPT !.left = left, !.removed = removed, !.hot = hotToo]

\* A look at the last element of the cold queue.
LEMMA DiscardColdKeeps ==
  ASSUME AssetInv, NEW q \in IfDue(cold), discard_cold(q)
  PROVE  AssetInv'
  <1> DEFINE Discards == [left : Nat, removed : SUBSET issued, hot : BOOLEAN, on : BOOLEAN]
  <1>1. /\ UNCHANGED <<db, db_epoch_data, config, running, clock, alive, last_id, in_flight, issued, used>>
        /\ UNCHANGED <<hot, takers>> /\ discarding.on /\ discarding.left > 0
    BY DEF discard_cold
  <1>2. running = "running"
    BY <1>1 DEF AssetInv, DownInv, NotDiscarding
  <1>3. StoreTypeOK /\ MemoryInv /\ HandsInv /\ NoAsset \notin db /\ DOMAIN takers' = Takers
        /\ DbInv /\ discarding \in Discards
    BY <1>1, NoneIsNone DEF AssetInv, StoreTypeOK
  <1>4. ColdOK(q, db) /\ q.queue = cold.queue /\ Distinct(q.queue)
    BY <1>3, IfDueCold DEF MemoryInv, StoreTypeOK
  <1>5. CASE q.ready = Len(q.queue)
    <2>1. cold' = q /\ discarding' = [discarding EXCEPT !.hot = TRUE]
      BY <1>5 DEF discard_cold
    <2>2. discarding' \in Discards /\ discarding'.removed = discarding.removed
      BY <1>3, <2>1
    <2>3. MemoryInv'
      BY <1>1, <1>3, <1>4, <2>1, <2>2 DEF MemoryInv
    <2>4. HandsInv'
      BY <1>1, <1>3, <1>4, <2>1, <2>2, HandsKept
    <2>5. QED
      BY <1>1, <1>2, <1>3, <2>2, <2>3, <2>4, MemoryStep
  <1>6. CASE q.ready # Len(q.queue)
    <2> DEFINE x == Discarded(q)
               rem == IF x = NoAsset THEN discarding.removed ELSE discarding.removed \cup {x.id}
               n == discarding.left - 1
               h == discarding.hot
               d == Discarding(discarding, n, rem, h)
               r == AfterDiscard(q)
    <2>1. cold' = r /\ discarding' = d
      BY <1>3, <1>6 DEF discard_cold, Discarding
    <2>2. /\ ColdOK(r, db) /\ Distinct(r.queue)
          /\ x = NoAsset => Elems(r.queue) = Elems(q.queue)
          /\ x # NoAsset => /\ x \in Elems(q.queue) /\ x \in db
                            /\ Elems(r.queue) = Elems(q.queue) \ {x}
      BY <1>3, <1>4, <1>6, DiscardCold
    <2> HIDE DEF r, x
    <2>3. rem \in SUBSET issued /\ n \in Nat /\ h \in BOOLEAN
      <3>1. x # NoAsset => x.id \in issued
        BY <1>3, <2>2 DEF DbInv
      <3>2. QED
        BY <1>1, <1>3, <3>1
    <2>4. \A i \in rem : i \in discarding.removed \/ (x # NoAsset /\ i = x.id)
      OBVIOUS
    <2> HIDE DEF rem, n, h
    <2>5. d \in Discards /\ d.removed = rem
      BY <1>3, <2>3 DEF Discarding
    <2> HIDE DEF d
    <2>6. Elems(cold'.queue) \subseteq Elems(cold.queue) /\ (x # NoAsset => x \notin Elems(cold'.queue))
      BY <1>4, <2>1, <2>2
    <2>7. \A a \in Elems(hot') \cup Elems(cold'.queue) : a.id \notin discarding'.removed
      <3> SUFFICES ASSUME NEW a \in Elems(hot) \cup Elems(cold'.queue), a.id \in rem PROVE FALSE
        BY <1>1, <2>1, <2>5
      <3>1. a.id \notin discarding.removed
        BY <1>3, <2>6 DEF MemoryInv
      <3>2. x # NoAsset /\ a.id = x.id
        BY <2>4, <3>1
      <3>3. a \in db
        <4>1. hot \in Seq(db) /\ cold.queue \in Seq(db)
          BY <1>3 DEF MemoryInv, ColdOK, Queues
        <4>2. QED
          BY <2>6, <4>1, ElemsIn
      <3>4. a = x
        BY <1>3, <2>2, <3>2, <3>3 DEF DbInv
      <3>5. x \in Elems(cold.queue) /\ x \notin Elems(cold'.queue)
        BY <1>4, <2>2, <2>6, <3>2
      <3>6. QED
        BY <1>3, <3>4, <3>5 DEF MemoryInv
    <2>8. MemoryInv'
      BY <1>1, <1>3, <2>1, <2>2, <2>6, <2>7 DEF MemoryInv
    <2>9. HandsInv'
      <3>1. ASSUME NEW i \in discarding'.removed, NEW t \in Takers, HasOne(t), i \notin discarding.removed
            PROVE  takers[t].asset.id # i
        <4>1. x # NoAsset /\ i = x.id /\ x \in db /\ x \in Elems(cold.queue)
          BY <1>4, <2>1, <2>2, <2>4, <2>5, <3>1
        <4>2. takers[t].asset \in db /\ takers[t].asset # x
          BY <1>3, <3>1, <4>1 DEF HandsInv
        <4>3. QED
          BY <1>3, <4>1, <4>2 DEF DbInv
      <3>2. Elems(hot') \cup Elems(cold'.queue) \subseteq Elems(hot) \cup Elems(cold.queue)
        BY <1>1, <2>6
      <3>3. QED
        BY <1>1, <1>3, <3>1, <3>2, HandsKept
    <2>10. \A i \in discarding'.removed : i \in discarding.removed \/ \E a \in db : a.id = i
      BY <2>1, <2>2, <2>4, <2>5
    <2>11. discarding' \in Discards
      BY <2>1, <2>5
    <2>12. QED
      BY <1>1, <1>2, <1>3, <2>8, <2>9, <2>10, <2>11, MemoryStep
  <1>7. QED
    BY <1>5, <1>6

\* An element of the hot queue goes to the front of the cold queue or leaves
\* memory.
LEMMA DiscardHotKeeps ==
  ASSUME AssetInv, NEW q \in IfDue(cold), discard_hot(q)
  PROVE  AssetInv'
  <1> DEFINE Discards == [left : Nat, removed : SUBSET issued, hot : BOOLEAN, on : BOOLEAN]
             x == Head(hot)
  <1>1. /\ UNCHANGED <<db, db_epoch_data, config, running, clock, alive, last_id, in_flight, issued, used>>
        /\ UNCHANGED takers /\ discarding.on /\ discarding.left > 0 /\ hot # <<>> /\ hot' = Tail(hot)
        /\ \/ condition(q.last, x) /\ cold' = AddedReady(q, x)
           \/ cold' = q
        /\ discarding' = [discarding EXCEPT !.left = @ - 1]
    BY DEF discard_hot
  <1>2. running = "running"
    BY <1>1 DEF AssetInv, DownInv, NotDiscarding
  <1>3. StoreTypeOK /\ MemoryInv /\ HandsInv /\ DOMAIN takers' = Takers /\ discarding \in Discards
    BY <1>1 DEF AssetInv, StoreTypeOK
  <1>4. ColdOK(q, db) /\ q.queue = cold.queue /\ Distinct(q.queue)
    BY <1>3, IfDueCold DEF MemoryInv, StoreTypeOK
  <1>5. /\ hot' \in Seq(db) /\ Distinct(hot') /\ Elems(hot') = Elems(hot) \ {x}
        /\ x \in db /\ x \in Elems(hot)
    BY <1>1, <1>3, TailElems DEF MemoryInv
  <1>6. x \notin Elems(q.queue)
    BY <1>3, <1>4, <1>5 DEF MemoryInv
  <1>7. discarding' \in Discards /\ discarding'.removed = discarding.removed
    BY <1>1, <1>3
  <1> HIDE DEF x
  <1>8. /\ ColdOK(cold', db) /\ Distinct(cold'.queue)
        /\ Elems(cold'.queue) \subseteq Elems(cold.queue) \cup {x}
    <2>1. CASE condition(q.last, x) /\ cold' = AddedReady(q, x)
      <3>1. /\ ColdOK(cold', db) /\ Distinct(cold'.queue)
            /\ Elems(cold'.queue) = Elems(q.queue) \cup {x}
        BY <1>4, <1>5, <1>6, <2>1, AddReadyCold
      <3>2. QED
        BY <1>4, <3>1
    <2>2. CASE cold' = q
      BY <1>4, <2>2
    <2>3. QED
      BY <1>1, <2>1, <2>2 DEF x
  <1>9. MemoryInv'
    BY <1>1, <1>3, <1>5, <1>7, <1>8 DEF MemoryInv
  <1>10. HandsInv'
    <2>1. Elems(hot') \cup Elems(cold'.queue) \subseteq Elems(hot) \cup Elems(cold.queue)
      BY <1>5, <1>8
    <2>2. QED
      BY <1>1, <1>3, <1>7, <2>1, HandsKept
  <1>11. QED
    BY <1>1, <1>2, <1>3, <1>7, <1>9, <1>10, MemoryStep

-----------------------------------------------------------------------------
(* Assets leave the database.                                              *)

\* A cold queue of fewer assets.
LEMMA ColdOf ==
  ASSUME NEW S, NEW q, ColdOK(q, S), NEW T, Elems(q.queue) \subseteq T
  PROVE  ColdOK(q, T)
  <1>1. q \in Queues(S) /\ q.queue \in Seq(S)
    BY DEF ColdOK, Queues
  <1>2. q.queue \in Seq(T)
    BY <1>1, QueueOf
  <1>3. q \in Queues(T)
    BY <1>1, <1>2 DEF Queues
  <1>4. QED
    BY <1>3 DEF ColdOK

\* Those that leave are nowhere in memory.
LEMMA DbShrinks ==
  ASSUME AssetInv, running = "running",
         UNCHANGED <<db_epoch_data, config, running, clock, alive, last_id, in_flight, issued, hot, cold>>,
         db' \subseteq db, Elems(hot) \cup Elems(cold.queue) \subseteq db',
         used \subseteq used', \A i \in used' : i \in used \/ \E a \in db \ db' : a.id = i,
         discarding' \in [left : Nat, removed : SUBSET issued, hot : BOOLEAN, on : BOOLEAN],
         discarding'.removed \subseteq discarding.removed,
         HandsInv', DOMAIN takers' = Takers
  PROVE  AssetInv'
  <1>1. \A i \in used' : i \in issued
    BY DEF AssetInv, StoreTypeOK, DbInv
  <1>2. StoreTypeOK'
    BY <1>1 DEF AssetInv, StoreTypeOK
  <1>3. DbInv'
    <2>1. IsFiniteSet(db')
      BY FS_Subset DEF AssetInv, DbInv
    <2>2. \A a \in db' : a.id \notin used'
      BY DEF AssetInv, DbInv
    <2>3. QED
      BY <2>1, <2>2 DEF AssetInv, DbInv
  <1>4. ConfigInv' /\ IdsInv'
    BY DEF AssetInv, ConfigInv, IdsInv, Matches
  <1>5. FlightInv'
    <2>1. \A g : Pending(g)' = Pending(g)
      BY DEF Pending
    <2>2. \A g \in in_flight : Pending(g) \cap used' = {}
      BY DEF AssetInv, FlightInv
    <2>3. \A g \in in_flight : Pending(g) \cap discarding'.removed = {}
      BY DEF AssetInv, FlightInv
    <2>4. QED
      BY <2>1, <2>2, <2>3 DEF AssetInv, FlightInv
  <1>6. MemoryInv'
    <2>1. hot \in Seq(db) /\ ColdOK(cold, db)
      BY DEF AssetInv, MemoryInv
    <2>2. hot \in Seq(db') /\ ColdOK(cold, db')
      BY <2>1, QueueOf, ColdOf
    <2>3. QED
      BY <2>2 DEF AssetInv, MemoryInv
  <1>7. QED
    BY <1>2, <1>3, <1>4, <1>5, <1>6 DEF AssetInv, DownInv

\* What is in memory is in the database.
LEMMA InDatabase ==
  ASSUME MemoryInv
  PROVE  Elems(hot) \cup Elems(cold.queue) \subseteq db
  <1>1. hot \in Seq(db) /\ cold.queue \in Seq(db)
    BY DEF MemoryInv, ColdOK, Queues
  <1>2. QED
    BY <1>1, ElemsIn

\* The discard ends: what it removed leaves the database.
LEMMA DiscardEnds ==
  ASSUME AssetInv, discard_ends
  PROVE  AssetInv'
  <1>1. /\ UNCHANGED <<db_epoch_data, config, running, clock, alive, last_id, in_flight, issued, hot, cold>>
        /\ UNCHANGED <<takers, used>> /\ discarding.on
        /\ db' = {a \in db : a.id \notin discarding.removed}
        /\ discarding' = NotDiscarding
    BY DEF discard_ends
  <1>2. running = "running"
    BY <1>1 DEF AssetInv, DownInv, NotDiscarding
  <1>3. Elems(hot) \cup Elems(cold.queue) \subseteq db'
    BY <1>1, InDatabase DEF AssetInv, MemoryInv
  <1>4. /\ discarding' \in [left : Nat, removed : SUBSET issued, hot : BOOLEAN, on : BOOLEAN]
        /\ discarding'.removed = {}
    BY <1>1 DEF NotDiscarding
  <1>5. HandsInv'
    BY <1>1, <1>4 DEF AssetInv, HandsInv, HasOne
  <1>6. DOMAIN takers' = Takers
    BY <1>1 DEF AssetInv, StoreTypeOK
  <1>7. QED
    BY <1>1, <1>2, <1>3, <1>4, <1>5, <1>6, DbShrinks

\* A caller gets its asset, which leaves the database.
LEMMA HandOut ==
  ASSUME AssetInv, NEW t \in Takers, hand_out(t)
  PROVE  AssetInv'
  <1> DEFINE x == takers[t].asset
  <1>1. /\ storeUnchanged /\ UNCHANGED <<hot, cold>> /\ HasOne(t)
        /\ db' = db \ {x} /\ used' = used \cup {x.id} /\ Goes(t, "idle", NoAsset)
    BY DEF hand_out, HasOne
  <1>2. UNCHANGED <<db_epoch_data, config, running, clock, alive, last_id, in_flight, discarding, issued>>
    BY <1>1 DEF storeUnchanged
  <1>3. running = "running"
    BY <1>1 DEF AssetInv, DownInv, HasOne
  <1>4. StoreTypeOK /\ HandsInv /\ MemoryInv
    BY DEF AssetInv
  <1>5. x \in db /\ x \notin Elems(hot) \cup Elems(cold.queue)
    BY <1>1, <1>4 DEF HandsInv
  <1>6. Elems(hot) \cup Elems(cold.queue) \subseteq db'
    BY <1>1, <1>4, <1>5, InDatabase
  <1>7. HandsInv' /\ DOMAIN takers' = Takers
    <2>1. \A u \in Takers : u # t /\ HasOne(u) => takers[u].asset \in db'
      BY <1>1, <1>4 DEF HandsInv
    <2>2. /\ Elems(hot') \cup Elems(cold'.queue) \subseteq Elems(hot) \cup Elems(cold.queue)
          /\ discarding'.removed = discarding.removed
      BY <1>1, <1>2
    <2>3. QED
      BY <1>1, <1>4, <2>1, <2>2, HandsEmpty, TakerGoes
  <1>8. /\ db' \subseteq db /\ used \subseteq used'
        /\ \A i \in used' : i \in used \/ \E a \in db \ db' : a.id = i
    BY <1>1, <1>5
  <1>9. /\ discarding' \in [left : Nat, removed : SUBSET issued, hot : BOOLEAN, on : BOOLEAN]
        /\ discarding'.removed \subseteq discarding.removed
    BY <1>2, <1>4 DEF StoreTypeOK
  <1>10. QED
    BY <1>1, <1>2, <1>3, <1>6, <1>7, <1>8, <1>9, DbShrinks

-----------------------------------------------------------------------------
(* Generations.                                                            *)

\* A participant comes or goes.
LEMMA PeerKeeps ==
  ASSUME AssetInv, NEW p \in all_participants, peer_changes(p)
  PROVE  AssetInv'
  <1>1. /\ UNCHANGED <<db, db_epoch_data, config, running, clock, last_id, hot, cold, in_flight,
                       takers, discarding, issued, used>>
        /\ alive' \subseteq all_participants
    BY DEF peer_changes, AssetInv, StoreTypeOK
  <1>2. StoreTypeOK' /\ DbInv' /\ ConfigInv' /\ IdsInv' /\ DownInv'
    BY <1>1 DEF AssetInv, StoreTypeOK, DbInv, ConfigInv, IdsInv, DownInv, Matches
  <1>3. FlightInv' /\ MemoryInv' /\ HandsInv'
    BY <1>1 DEF AssetInv, FlightInv, MemoryInv, HandsInv, HasOne, Pending
  <1>4. QED
    BY <1>2, <1>3 DEF AssetInv

\* A generation fails: its ids stay reserved.
LEMMA GenerationFails ==
  ASSUME AssetInv, NEW g \in in_flight, generation_fails(g)
  PROVE  AssetInv'
  <1>1. /\ UNCHANGED <<db, db_epoch_data, config, running, clock, alive, last_id, hot, cold,
                       takers, discarding, issued, used>>
        /\ in_flight' \subseteq in_flight
    BY DEF generation_fails
  <1>2. StoreTypeOK' /\ DbInv' /\ ConfigInv' /\ IdsInv' /\ DownInv'
    BY <1>1 DEF AssetInv, StoreTypeOK, DbInv, ConfigInv, IdsInv, DownInv, Matches
  <1>3. FlightInv'
    <2>1. \A h : Pending(h)' = Pending(h)
      BY DEF Pending
    <2>2. QED
      BY <1>1, <2>1 DEF AssetInv, FlightInv
  <1>4. MemoryInv' /\ HandsInv'
    BY <1>1 DEF AssetInv, MemoryInv, HandsInv, HasOne
  <1>5. QED
    BY <1>2, <1>3, <1>4 DEF AssetInv

\* generate_and_reserve_id_range: the first id is of this second, and above all
\* the ids of this second.
LEMMA FirstIdFresh ==
  ASSUME AssetInv, running = "running"
  PROVE  \E c \in Nat : FirstId = <<clock, c>> /\ \A i \in issued : i[1] = clock => i[2] < c
  <1>1. CASE last_id = NoId
    <2>1. FirstId = <<clock, 0>> /\ \A i \in issued : i[1] # clock
      BY <1>1 DEF FirstId, AssetInv, IdsInv, StoreTypeOK, Ids
    <2>2. QED
      BY <2>1
  <1>2. CASE last_id # NoId
    <2>1. /\ last_id \in Ids /\ clock \in Nat /\ last_id[1] \in Nat /\ last_id[2] \in Nat
          /\ last_id[1] <= clock
          /\ \A i \in issued : i[1] = clock => last_id[1] = clock /\ i[2] <= last_id[2]
      BY <1>2 DEF AssetInv, IdsInv, StoreTypeOK, Ids
    <2>2. CASE clock > last_id[1]
      <3>1. FirstId = <<clock, 0>> /\ \A i \in issued : i[1] # clock
        BY <1>2, <2>1, <2>2 DEF FirstId, pick_new_after
      <3>2. QED
        BY <3>1
    <2>3. CASE clock = last_id[1]
      <3>1. FirstId = <<clock, last_id[2] + 1>>
        BY <1>2, <2>1, <2>3 DEF FirstId, pick_new_after
      <3>2. \A i \in issued : i[2] \in Nat
        BY DEF AssetInv, StoreTypeOK, Ids
      <3>3. \A i \in issued : i[1] = clock => i[2] < last_id[2] + 1
        BY <2>1, <3>2
      <3>4. QED
        BY <2>1, <3>1, <3>3
    <2>4. QED
      BY <2>1, <2>2, <2>3
  <1>3. QED
    BY <1>1, <1>2

\* Its range: pairs of this second.
LEMMA RangeFresh ==
  ASSUME AssetInv, running = "running"
  PROVE  /\ IdRange(FirstId) \subseteq Ids /\ IdRange(FirstId) \cap issued = {}
         /\ FirstId \in Ids /\ add_to_counter(FirstId, batch_size - 1) \in Ids
         /\ add_to_counter(FirstId, batch_size - 1)[1] = clock
         /\ \A i \in issued \cup IdRange(FirstId) :
               i[1] = clock => i[2] <= add_to_counter(FirstId, batch_size - 1)[2]
         /\ \A i \in IdRange(FirstId) : i[1] = clock
  <1>1. PICK c \in Nat : FirstId = <<clock, c>> /\ \A i \in issued : i[1] = clock => i[2] < c
    BY FirstIdFresh
  <1>2. clock \in Nat /\ batch_size \in Nat /\ batch_size > 0 /\ batch_size - 1 \in Nat
    BY AssetsAssumption DEF AssetInv, StoreTypeOK
  <1>3. \A k \in Nat : add_to_counter(FirstId, k) = <<clock, c + k>>
    BY <1>1 DEF add_to_counter
  <1>4. \A i \in IdRange(FirstId) : /\ i \in Ids /\ i[1] = clock /\ i[2] >= c
                                    /\ i[2] <= c + (batch_size - 1)
    <2> SUFFICES ASSUME NEW k \in 0 .. batch_size - 1
                 PROVE  LET i == add_to_counter(FirstId, k) IN
                        i \in Ids /\ i[1] = clock /\ i[2] >= c /\ i[2] <= c + (batch_size - 1)
      BY DEF IdRange
    <2>1. k \in Nat /\ k <= batch_size - 1 /\ add_to_counter(FirstId, k) = <<clock, c + k>>
      BY <1>2, <1>3
    <2>2. QED
      BY <1>2, <2>1 DEF Ids
  <1>5. add_to_counter(FirstId, batch_size - 1) = <<clock, c + (batch_size - 1)>>
    BY <1>2, <1>3
  <1>6. \A i \in issued : i[1] \in Nat /\ i[2] \in Nat
    BY DEF AssetInv, StoreTypeOK, Ids
  <1>7. IdRange(FirstId) \cap issued = {}
    <2> SUFFICES ASSUME NEW i \in IdRange(FirstId), i \in issued PROVE FALSE
      OBVIOUS
    <2>1. i[2] < c /\ i[2] >= c /\ i[2] \in Nat
      BY <1>1, <1>4, <1>6
    <2>2. QED
      BY <2>1
  <1>8. \A i \in issued \cup IdRange(FirstId) : i[1] = clock => i[2] <= c + (batch_size - 1)
    <2>1. ASSUME NEW i \in issued, i[1] = clock PROVE i[2] <= c + (batch_size - 1)
      BY <1>1, <1>2, <1>6, <2>1
    <2>2. QED
      BY <1>4, <2>1
  <1>9. FirstId \in Ids /\ <<clock, c + (batch_size - 1)>> \in Ids
    BY <1>1, <1>2 DEF Ids
  <1>10. QED
    BY <1>4, <1>5, <1>7, <1>8, <1>9

\* A generation begins.
LEMMA GenerateKeeps ==
  ASSUME AssetInv, NEW chosen \in SUBSET all_participants, generate(chosen)
  PROVE  AssetInv'
  <1> DEFINE new == [start |-> FirstId, participants |-> chosen, added |-> 0]
             last == add_to_counter(FirstId, batch_size - 1)
             range == IdRange(FirstId)
  <1>1. /\ UNCHANGED <<db, db_epoch_data, config, running, clock, alive, hot, cold, takers,
                       discarding, used>>
        /\ last_id' = last /\ in_flight' = in_flight \cup {new} /\ issued' = issued \cup range
        /\ running = "running"
    BY DEF generate
  <1>2. /\ range \subseteq Ids /\ range \cap issued = {} /\ FirstId \in Ids /\ last \in Ids
        /\ last[1] = clock
        /\ \A i \in issued \cup range : i[1] = clock => i[2] <= last[2]
        /\ \A i \in range : i[1] = clock
    BY <1>1, RangeFresh
  <1>3. new \in Generations
    BY <1>2, AssetsAssumption DEF Generations
  <1>4. Pending(new) = range
    BY DEF Pending, IdRange
  <1> HIDE DEF new, last, range
  <1>5. StoreTypeOK'
    <2>1. \A r : r \in SUBSET issued => r \in SUBSET issued'
      BY <1>1
    <2>2. discarding' \in [left : Nat, removed : SUBSET issued', hot : BOOLEAN, on : BOOLEAN]
      <3>1. discarding \in [left : Nat, removed : SUBSET issued, hot : BOOLEAN, on : BOOLEAN]
        BY DEF AssetInv, StoreTypeOK
      <3>2. QED
        BY <1>1, <2>1, <3>1
    <2>3. issued' \subseteq Ids /\ used' \subseteq issued' /\ last_id' \in Ids /\ in_flight' \subseteq Generations
      BY <1>1, <1>2, <1>3 DEF AssetInv, StoreTypeOK
    <2>4. QED
      BY <1>1, <2>2, <2>3 DEF AssetInv, StoreTypeOK
  <1>6. DbInv' /\ ConfigInv'
    BY <1>1 DEF AssetInv, DbInv, ConfigInv, Matches
  <1>7. IdsInv'
    <2>1. clock \in Nat /\ \A i \in issued : i[1] <= clock
      BY DEF AssetInv, StoreTypeOK, IdsInv
    <2>2. \A i \in issued' : i[1] <= clock
      BY <1>1, <1>2, <2>1
    <2>3. last_id' # NoId /\ last_id'[1] = clock
      BY <1>1, <1>2, NoneIsNone
    <2>4. \A i \in issued' : i[1] = clock => i[2] <= last_id'[2]
      BY <1>1, <1>2
    <2>5. QED
      BY <1>1, <2>1, <2>2, <2>3, <2>4 DEF IdsInv
  <1>8. FlightInv'
    <2>1. \A g : Pending(g)' = Pending(g)
      BY DEF Pending
    <2>2. \A g \in in_flight : /\ Pending(g) \subseteq issued \ used
                               /\ Pending(g) \cap discarding.removed = {}
                               /\ \A a \in db : a.id \notin Pending(g)
      BY DEF AssetInv, FlightInv
    <2>3. /\ range \subseteq issued' \ used /\ range \cap discarding.removed = {}
          /\ \A a \in db : a.id \notin range
      BY <1>1, <1>2 DEF AssetInv, DbInv, StoreTypeOK
    <2>4. \A g \in in_flight : Pending(g) \cap range = {}
      BY <1>2, <2>2
    <2>5. \A g, h \in in_flight' : g # h => Pending(g) \cap Pending(h) = {}
      <3> SUFFICES ASSUME NEW g \in in_flight', NEW h \in in_flight', g # h
                   PROVE  Pending(g) \cap Pending(h) = {}
        OBVIOUS
      <3>1. CASE g \in in_flight /\ h \in in_flight
        BY <3>1 DEF AssetInv, FlightInv
      <3>2. CASE g = new
        <4>1. h \in in_flight /\ Pending(g) = range
          BY <1>1, <1>4, <3>2
        <4>2. QED
          BY <2>4, <4>1
      <3>3. CASE h = new
        <4>1. g \in in_flight /\ Pending(h) = range
          BY <1>1, <1>4, <3>3
        <4>2. QED
          BY <2>4, <4>1
      <3>4. QED
        BY <1>1, <3>1, <3>2, <3>3
    <2>6. \A g \in in_flight' : /\ Pending(g) \subseteq issued' \ used'
                                /\ Pending(g) \cap discarding'.removed = {}
                                /\ \A a \in db' : a.id \notin Pending(g)
      <3> SUFFICES ASSUME NEW g \in in_flight'
                   PROVE  /\ Pending(g) \subseteq issued' \ used
                          /\ Pending(g) \cap discarding.removed = {}
                          /\ \A a \in db : a.id \notin Pending(g)
        BY <1>1
      <3>1. CASE g \in in_flight
        BY <1>1, <2>2, <3>1
      <3>2. CASE g = new
        BY <1>4, <2>3, <3>2
      <3>3. QED
        BY <1>1, <3>1, <3>2
    <2>7. QED
      BY <2>1, <2>5, <2>6 DEF FlightInv
  <1>9. MemoryInv' /\ HandsInv'
    BY <1>1 DEF AssetInv, MemoryInv, HandsInv, HasOne
  <1>10. DownInv'
    BY <1>1 DEF DownInv
  <1>11. QED
    BY <1>5, <1>6, <1>7, <1>8, <1>9, <1>10 DEF AssetInv

\* The ids that a generation still has to add, without the one it adds now.
LEMMA NextPending ==
  ASSUME NEW g \in Generations, g.added + 1 # batch_size
  PROVE  LET h == [g EXCEPT !.added = @ + 1] IN
         /\ h \in Generations
         /\ Pending(h) = Pending(g) \ {add_to_counter(g.start, g.added)}
  <1> DEFINE h == [g EXCEPT !.added = @ + 1]
             n == g.added
             m == batch_size - 1
             a == g.start[1]
             b == g.start[2]
  <1>1. /\ n \in Nat /\ m \in Nat /\ n < m /\ a \in Nat /\ b \in Nat
        /\ g.start \in Ids /\ g.participants \in SUBSET all_participants
    BY AssetsAssumption DEF Generations, Ids
  <1>2. h.start = g.start /\ h.added = n + 1 /\ h.participants = g.participants
    BY DEF Generations
  <1>3. h \in Generations
    BY <1>1, <1>2 DEF Generations
  <1>4. \A k : add_to_counter(g.start, k) = <<a, b + k>>
    BY DEF add_to_counter
  <1>5. /\ Pending(h) = {<<a, b + k>> : k \in n + 1 .. m}
        /\ Pending(g) = {<<a, b + k>> : k \in n .. m}
    BY <1>2, <1>4 DEF Pending
  <1> HIDE DEF h, n, m, a, b
  <1>6. Pending(h) = Pending(g) \ {<<a, b + n>>}
    <2>1. \A k \in n .. m : k \in n + 1 .. m \/ k = n
      BY <1>1
    <2>2. \A k \in n + 1 .. m : k \in n .. m /\ <<a, b + k>> # <<a, b + n>>
      BY <1>1
    <2>3. QED
      BY <1>5, <2>1, <2>2
  <1>7. QED
    BY <1>3, <1>4, <1>6 DEF h, n

\* One asset of a generation is added, under an id that is nobody else's.
LEMMA AddOwned ==
  ASSUME AssetInv, NEW g \in in_flight, add_owned(g)
  PROVE  AssetInv'
  <1> DEFINE i == add_to_counter(g.start, g.added)
             made == [epoch |-> config.epoch, keys |-> [p \in g.participants |-> config.keys[p]]]
             a == [id |-> i, participants |-> g.participants, made_with |-> made]
             h == [g EXCEPT !.added = @ + 1]
             rest == IF g.added + 1 = batch_size THEN {} ELSE {h}
  <1>1. /\ UNCHANGED <<db_epoch_data, config, running, clock, alive, last_id, cold, takers,
                       discarding, issued, used>>
        /\ db' = db \cup {a} /\ hot' = Append(hot, a) /\ in_flight' = (in_flight \ {g}) \cup rest
    BY DEF add_owned
  <1>2. running = "running"
    BY DEF AssetInv, DownInv
  <1>3. StoreTypeOK /\ MemoryInv /\ HandsInv /\ DbInv /\ FlightInv /\ ConfigInv /\ IdsInv
    BY DEF AssetInv
  <1>4. g \in Generations /\ g.participants \subseteq all_participants
    BY <1>3 DEF StoreTypeOK, Generations
  <1>5. i \in Pending(g)
    <2>1. g.added \in g.added .. batch_size - 1
      BY <1>4, AssetsAssumption DEF Generations
    <2>2. QED
      BY <2>1 DEF Pending
  <1>6. a.id = i /\ a.participants = g.participants /\ Matches(a, config)
    BY DEF Matches
  <1>7. \A e \in rest : e = h /\ e \in Generations /\ Pending(e) = Pending(g) \ {i}
    BY <1>4, NextPending
  <1>8. /\ i \in issued /\ i \notin used /\ i \notin discarding.removed
        /\ \A b \in db : b.id # i
    BY <1>3, <1>5 DEF FlightInv
  <1> HIDE DEF i, made, a, h, rest
  <1>9. a \notin db
    BY <1>6, <1>8
  <1>10. StoreTypeOK'
    BY <1>1, <1>3, <1>7 DEF StoreTypeOK
  <1>11. DbInv'
    <2>1. IsFiniteSet(db')
      BY <1>1, <1>3, FS_AddElement DEF DbInv
    <2>2. QED
      BY <1>1, <1>3, <1>4, <1>6, <1>8, <2>1 DEF DbInv
  <1>12. ConfigInv'
    <2>1. config # NoConfig /\ db_epoch_data = config
      <3>1. config.epoch \in Nat
        BY <1>3 DEF StoreTypeOK, Configs
      <3>2. NoConfig.epoch = -1
        BY DEF NoConfig
      <3>3. QED
        BY <1>2, <1>3, <3>1, <3>2 DEF ConfigInv
    <2>2. \A b \in db' : Matches(b, config)
      BY <1>1, <1>2, <1>3, <1>6 DEF ConfigInv
    <2>3. QED
      BY <1>1, <2>1, <2>2 DEF ConfigInv, Matches
  <1>13. IdsInv'
    BY <1>1, <1>3 DEF IdsInv
  <1>14. FlightInv'
    <2>1. \A e : Pending(e)' = Pending(e)
      BY DEF Pending
    <2>2. \A e \in in_flight \ {g} : /\ Pending(e) \cap Pending(g) = {} /\ i \notin Pending(e)
                                    /\ Pending(e) \subseteq issued \ used
                                    /\ Pending(e) \cap discarding.removed = {}
                                    /\ \A b \in db : b.id \notin Pending(e)
      BY <1>3, <1>5 DEF FlightInv
    <2>3. \A e \in rest : /\ Pending(e) \subseteq Pending(g) /\ i \notin Pending(e)
                         /\ Pending(e) \subseteq issued \ used
                         /\ Pending(e) \cap discarding.removed = {}
                         /\ \A b \in db : b.id \notin Pending(e)
      BY <1>3, <1>7 DEF FlightInv
    <2>4. \A e \in in_flight' : /\ Pending(e) \subseteq issued' \ used'
                                /\ Pending(e) \cap discarding'.removed = {}
                                /\ \A b \in db' : b.id \notin Pending(e)
      <3> SUFFICES ASSUME NEW e \in in_flight'
                   PROVE  /\ Pending(e) \subseteq issued \ used
                          /\ Pending(e) \cap discarding.removed = {}
                          /\ \A b \in db : b.id \notin Pending(e)
                          /\ i \notin Pending(e)
        BY <1>1, <1>6
      <3>1. CASE e \in in_flight \ {g}
        BY <2>2, <3>1
      <3>2. CASE e \in rest
        BY <2>3, <3>2
      <3>3. QED
        BY <1>1, <3>1, <3>2
    <2>5. \A e, f \in in_flight' : e # f => Pending(e) \cap Pending(f) = {}
      <3> SUFFICES ASSUME NEW e \in in_flight', NEW f \in in_flight', e # f
                   PROVE  Pending(e) \cap Pending(f) = {}
        OBVIOUS
      <3>1. CASE e \in in_flight \ {g} /\ f \in in_flight \ {g}
        BY <1>3, <3>1 DEF FlightInv
      <3>2. CASE e \in rest
        <4>1. f \in in_flight \ {g}
          BY <1>1, <1>7, <3>2
        <4>2. QED
          BY <2>2, <2>3, <3>2, <4>1
      <3>3. CASE f \in rest
        <4>1. e \in in_flight \ {g}
          BY <1>1, <1>7, <3>3
        <4>2. QED
          BY <2>2, <2>3, <3>3, <4>1
      <3>4. QED
        BY <1>1, <3>1, <3>2, <3>3
    <2>6. QED
      BY <2>1, <2>4, <2>5 DEF FlightInv
  <1>15. /\ hot' \in Seq(db') /\ Distinct(hot') /\ Elems(hot') = Elems(hot) \cup {a}
        /\ ColdOK(cold, db') /\ a \notin Elems(hot) \cup Elems(cold.queue)
    <2>1. Elems(hot) \cup Elems(cold.queue) \subseteq db
      BY <1>3, InDatabase
    <2>2. /\ hot \in Seq(db) /\ ColdOK(cold, db) /\ Distinct(hot)
          /\ Elems(hot) \subseteq db' /\ Elems(cold.queue) \subseteq db'
      BY <1>1, <1>3, <2>1 DEF MemoryInv
    <2>3. hot \in Seq(db') /\ ColdOK(cold, db')
      BY <2>2, QueueOf, ColdOf
    <2>4. a \in db' /\ a \notin Elems(hot) \cup Elems(cold.queue)
      BY <1>1, <1>9, <2>1
    <2>5. QED
      BY <1>1, <2>2, <2>3, <2>4, AppendElems
  <1>16. MemoryInv'
    BY <1>1, <1>3, <1>6, <1>8, <1>15 DEF MemoryInv
  <1>17. HandsInv'
    BY <1>1, <1>3, <1>9, <1>15 DEF HandsInv, HasOne
  <1>18. DownInv'
    BY <1>1, <1>2 DEF DownInv
  <1>19. QED
    BY <1>10, <1>11, <1>12, <1>13, <1>14, <1>16, <1>17, <1>18 DEF AssetInv

-----------------------------------------------------------------------------
(* Start and stop.                                                         *)

\* What the database holds and memory does not know of does not matter to an
\* empty memory.
LEMMA EmptyMemory ==
  ASSUME hot' = <<>>, cold' = EmptyCold, in_flight' = {}, discarding' = NotDiscarding,
         \A t \in Takers : takers'[t].pc = "idle"
  PROVE  FlightInv' /\ MemoryInv' /\ HandsInv'
  <1>1. Elems(<<>>) = {} /\ Distinct(<<>>) /\ <<>> \in Seq(db')
    BY DEF Elems, Distinct
  <1>2. EmptyCold \in Queues(db') /\ EmptyCold.queue = <<>> /\ EmptyCold.ready = 0 /\ EmptyCold.available = 0
    BY <1>1 DEF Queues, EmptyCold
  <1>3. ColdOK(EmptyCold, db')
    <2>1. Len(<<>>) = 0
      OBVIOUS
    <2>2. QED
      BY <1>2, <2>1 DEF ColdOK
  <1>4. MemoryInv'
    BY <1>1, <1>2, <1>3 DEF MemoryInv
  <1>5. FlightInv'
    BY DEF FlightInv
  <1>6. HandsInv'
    BY DEF HandsInv, HasOne
  <1>7. QED
    BY <1>4, <1>5, <1>6

\* delete_stale_triples_and_presignatures: what stays was made in this
\* configuration.
LEMMA DeleteStale ==
  ASSUME AssetInv, delete_stale
  PROVE  AssetInv'
  <1>1. /\ UNCHANGED <<db_epoch_data, config, clock, alive, last_id, hot, cold, in_flight, takers, discarding,
                       issued, used>>
        /\ running = "down" /\ running' = "cleaned" /\ db' = {a \in db : Kept(a)}
    BY DEF delete_stale, memVars
  <1>2. StoreTypeOK'
    BY <1>1 DEF AssetInv, StoreTypeOK
  <1>3. DbInv'
    <2>1. IsFiniteSet(db')
      BY <1>1, FS_Subset DEF AssetInv, DbInv
    <2>2. QED
      BY <1>1, <2>1 DEF AssetInv, DbInv
  <1>4. ConfigInv'
    <2>1. \A a \in db' : Matches(a, config)
      BY <1>1 DEF AssetInv, ConfigInv, Matches, Kept
    <2>2. QED
      BY <1>1, <2>1 DEF AssetInv, ConfigInv, Matches
  <1>5. IdsInv' /\ DownInv'
    BY <1>1 DEF AssetInv, IdsInv, DownInv
  <1>6. /\ hot' = <<>> /\ cold' = EmptyCold /\ in_flight' = {} /\ discarding' = NotDiscarding
        /\ \A t \in Takers : takers'[t].pc = "idle"
    BY <1>1 DEF AssetInv, DownInv
  <1>7. FlightInv' /\ MemoryInv' /\ HandsInv'
    BY <1>6, EmptyMemory
  <1>8. QED
    BY <1>2, <1>3, <1>4, <1>5, <1>7 DEF AssetInv

\* Functions that are one to one between finite sets count the same.
LEMMA SameCount ==
  ASSUME NEW S, NEW T, IsFiniteSet(S), NEW f \in [S -> T],
         \A x, y \in S : f[x] = f[y] => x = y, \A z \in T : \E x \in S : f[x] = z
  PROVE  Cardinality(T) = Cardinality(S)
  <1>1. f \in Bijection(S, T)
    BY DEF Bijection, Injection, Surjection, IsInjective
  <1>2. ExistsBijection(S, T)
    BY <1>1 DEF ExistsBijection
  <1>3. QED
    BY <1>2, FS_Bijection

\* The store is made from the database: its last id is the highest there, and
\* the ids of this second that remain are all there.
LEMMA NewStore ==
  ASSUME AssetInv, new_store
  PROVE  AssetInv'
  <1>1. /\ UNCHANGED <<db, config, clock, alive, cold, in_flight, takers, discarding>>
        /\ running = "cleaned" /\ running' = "running" /\ db_epoch_data' = config
        /\ hot' \in SetToSeqs(db) /\ InKeyOrder(hot')
        /\ last_id' = IF db = {} THEN NoId ELSE Last(hot').id
        /\ issued' = issued \ Forgotten /\ used' = used \ Forgotten
    BY DEF new_store
  <1>2. StoreTypeOK /\ DbInv /\ ConfigInv /\ IdsInv /\ FlightInv /\ MemoryInv /\ HandsInv /\ DownInv
    BY DEF AssetInv
  <1>3. /\ hot = <<>> /\ cold = EmptyCold /\ in_flight = {} /\ last_id = NoId /\ discarding = NotDiscarding
        /\ \A t \in Takers : takers[t].pc = "idle"
    BY <1>1, <1>2 DEF DownInv
  <1>4. /\ hot' \in Seq(db) /\ Distinct(hot')
        /\ db # {} => /\ Last(hot') \in db
                      /\ \A a \in db : a # Last(hot') => IdLess(a.id, Last(hot').id)
    <2> DEFINE n == Cardinality(db)
    <2>1. n \in Nat /\ (db # {} => n > 0)
      BY <1>2, FS_CardinalityType, FS_EmptySet DEF DbInv
    <2>2. hot' \in [1 .. n -> db] /\ \A i, j \in 1 .. n : i # j => hot'[i] # hot'[j]
      BY <1>1 DEF SetToSeqs
    <2>3. \A a \in db : \E i \in 1 .. n : hot'[i] = a
      <3>1. IsFiniteSet(db)
        BY <1>2 DEF DbInv
      <3>2. IsFiniteSet(1 .. n) /\ Cardinality(1 .. n) = n
        BY <2>1, FS_Interval
      <3> DEFINE R == {hot'[i] : i \in 1 .. n}
      <3>3. R \subseteq db /\ hot' \in [1 .. n -> R]
        BY <2>2
      <3>4. Cardinality(R) = n
        <4>1. /\ \A i, j \in 1 .. n : hot'[i] = hot'[j] => i = j
              /\ \A z \in R : \E i \in 1 .. n : hot'[i] = z
          BY <2>2
        <4> HIDE DEF R, n
        <4>2. Cardinality(R) = Cardinality(1 .. n)
          BY <3>2, <3>3, <4>1, SameCount
        <4>3. QED
          BY <3>2, <4>2
      <3>5. R = db
        BY <3>1, <3>3, <3>4, FS_Subset
      <3>6. QED
        BY <3>5
    <2> HIDE DEF n
    <2>4. hot' \in Seq(db) /\ Len(hot') = n /\ DOMAIN hot' = 1 .. n
      BY <2>1, <2>2
    <2>5. Distinct(hot')
      BY <2>2, <2>4 DEF Distinct
    <2>6. ASSUME db # {}
          PROVE  /\ Last(hot') \in db
                 /\ \A a \in db : a # Last(hot') => IdLess(a.id, Last(hot').id)
      <3>1. n \in 1 .. n /\ Last(hot') = hot'[n]
        BY <2>1, <2>4, <2>6 DEF Last
      <3>2. ASSUME NEW a \in db, a # hot'[n] PROVE IdLess(a.id, hot'[n].id)
        <4>1. PICK i \in 1 .. n : hot'[i] = a
          BY <2>3
        <4>2. i < n
          BY <2>1, <3>2, <4>1
        <4>3. QED
          BY <1>1, <2>4, <3>1, <4>1, <4>2 DEF InKeyOrder
      <3>3. QED
        BY <2>2, <3>1, <3>2
    <2>7. QED
      BY <2>4, <2>5, <2>6
  <1>5. /\ issued' \subseteq issued /\ used' \subseteq issued'
        /\ \A a \in db : a.id \in issued' \ used'
        /\ \A i \in issued' : i[1] = clock => \E a \in db : a.id = i
    BY <1>1, <1>2 DEF Forgotten, DbInv, StoreTypeOK
  <1>6. last_id' \in issued' \cup {NoId}
    BY <1>1, <1>4, <1>5
  <1>7. StoreTypeOK'
    <2>1. discarding' \in [left : Nat, removed : SUBSET issued', hot : BOOLEAN, on : BOOLEAN]
      BY <1>1, <1>3 DEF NotDiscarding
    <2>2. issued' \subseteq Ids /\ used' \subseteq issued' /\ last_id' \in Ids \cup {NoId}
      BY <1>2, <1>5, <1>6 DEF StoreTypeOK
    <2>3. QED
      BY <1>1, <1>2, <2>1, <2>2 DEF StoreTypeOK
  <1>8. DbInv' /\ DownInv'
    BY <1>1, <1>2, <1>5 DEF DbInv, DownInv
  <1>9. ConfigInv'
    <2>1. config # NoConfig
      <3>1. config.epoch \in Nat
        BY <1>2 DEF StoreTypeOK, Configs
      <3>2. NoConfig.epoch = -1
        BY DEF NoConfig
      <3>3. QED
        BY <3>1, <3>2
    <2>2. QED
      BY <1>1, <1>2, <2>1 DEF ConfigInv, Matches
  <1>10. IdsInv'
    <2>1. clock \in Nat /\ clock' = clock /\ \A i \in issued : i[1] <= clock /\ i[1] \in Nat /\ i[2] \in Nat
      BY <1>1, <1>2 DEF IdsInv, StoreTypeOK, Ids
    <2>2. ASSUME last_id' = NoId PROVE \A i \in issued' : i[1] < clock
      <3>1. db = {}
        BY <1>1, <1>2, <1>4, <2>2, NoneIsNone DEF DbInv, StoreTypeOK
      <3>2. QED
        BY <1>5, <2>1, <3>1
    <2>3. ASSUME last_id' # NoId
          PROVE  /\ last_id'[1] <= clock
                 /\ \A i \in issued' : i[1] = clock => last_id'[1] = clock /\ i[2] <= last_id'[2]
      <3>1. db # {} /\ last_id' = Last(hot').id /\ Last(hot') \in db /\ last_id' \in issued
        BY <1>1, <1>4, <1>5, <1>6, <2>3
      <3>2. ASSUME NEW a \in db, a.id[1] = clock
            PROVE  last_id'[1] = clock /\ a.id[2] <= last_id'[2]
        <4>1. a.id \in issued
          BY <1>5
        <4>2. CASE a = Last(hot')
          BY <2>1, <3>1, <3>2, <4>2
        <4>3. CASE a # Last(hot')
          <5>1. IdLess(a.id, last_id')
            BY <1>4, <3>1, <4>3
          <5>2. QED
            BY <2>1, <3>1, <3>2, <4>1, <5>1 DEF IdLess
        <4>4. QED
          BY <4>2, <4>3
      <3>3. QED
        BY <1>5, <2>1, <3>1, <3>2
    <2>4. QED
      BY <1>5, <2>1, <2>2, <2>3 DEF IdsInv
  <1>11. FlightInv' /\ HandsInv'
    BY <1>1, <1>3 DEF FlightInv, HandsInv, HasOne
  <1>12. MemoryInv'
    <2>1. Elems(<<>>) = {} /\ EmptyCold.queue = <<>> /\ NotDiscarding.removed = {}
      BY DEF Elems, EmptyCold, NotDiscarding
    <2>2. QED
      BY <1>1, <1>2, <1>3, <1>4, <2>1 DEF MemoryInv
  <1>13. QED
    BY <1>7, <1>8, <1>9, <1>10, <1>11, <1>12 DEF AssetInv

\* The configurations that the contract may give are configurations.
LEMMA NewConfigType ==
  ASSUME config \in Configs, NEW c \in {config} \cup NewConfigs
  PROVE  c \in Configs
  <1>1. CASE c = config
    BY <1>1
  <1>2. CASE c = [config EXCEPT !.epoch = @ + 1]
    BY <1>2 DEF Configs
  <1>3. ASSUME NEW p \in MigratingNodes, c = [config EXCEPT !.keys[p] = @ + 1]
        PROVE  c \in Configs
    <2> DEFINE k == [config.keys EXCEPT ![p] = config.keys[p] + 1]
    <2>1. config.keys \in [all_participants -> Nat] /\ config.epoch \in Nat
      BY DEF Configs
    <2>2. k \in [all_participants -> Nat]
      <3>1. DOMAIN k = all_participants /\ \A x \in all_participants : k[x] \in Nat
        BY <2>1
      <3>2. k = [x \in all_participants |-> k[x]]
        BY <2>1
      <3> HIDE DEF k
      <3>3. QED
        BY <3>1, <3>2
    <2>3. c = [config EXCEPT !.keys = k]
      BY <1>3
    <2> HIDE DEF k
    <2>4. QED
      BY <2>1, <2>2, <2>3 DEF Configs
  <1>4. QED
    BY <1>1, <1>2, <1>3 DEF NewConfigs

\* The job ends, and is run again at once or after a restart.
LEMMA JobEnds ==
  ASSUME AssetInv, NEW c \in {config} \cup NewConfigs, rerun(c) \/ restart(c)
  PROVE  AssetInv'
  <1>1. /\ UNCHANGED <<db, db_epoch_data, alive, issued, used>>
        /\ running' = "down" /\ config' = c /\ clock' \in {clock, clock + 1} /\ last_id' = NoId
        /\ hot' = <<>> /\ cold' = EmptyCold /\ in_flight' = {} /\ discarding' = NotDiscarding
        /\ takers' = [t \in Takers |-> Idle]
    BY DEF rerun, restart, job_ends
  <1>2. c \in Configs
    BY NewConfigType DEF AssetInv, StoreTypeOK
  <1>3. DOMAIN takers' = Takers /\ \A t \in Takers : takers'[t].pc = "idle"
    BY <1>1 DEF Idle
  <1>4. StoreTypeOK'
    <2>1. discarding' \in [left : Nat, removed : SUBSET issued', hot : BOOLEAN, on : BOOLEAN]
      BY <1>1 DEF NotDiscarding
    <2>2. QED
      BY <1>1, <1>2, <1>3, <2>1 DEF AssetInv, StoreTypeOK
  <1>5. DbInv' /\ DownInv'
    BY <1>1, <1>3 DEF AssetInv, DbInv, DownInv
  <1>6. ConfigInv'
    BY <1>1 DEF AssetInv, ConfigInv, Matches
  <1>7. IdsInv'
    <2>1. clock \in Nat /\ \A i \in issued : i[1] <= clock /\ i[1] \in Nat
      BY DEF AssetInv, IdsInv, StoreTypeOK, Ids
    <2>2. QED
      BY <1>1, <2>1 DEF IdsInv
  <1>8. FlightInv' /\ MemoryInv' /\ HandsInv'
    BY <1>1, <1>3, EmptyMemory
  <1>9. QED
    BY <1>4, <1>5, <1>6, <1>7, <1>8 DEF AssetInv

-----------------------------------------------------------------------------
(* The invariant.                                                          *)

\* It holds when the node is new.
LEMMA InitAssetInv == AssetsInit => AssetInv
  <1> SUFFICES ASSUME AssetsInit PROVE AssetInv
    OBVIOUS
  <1>1. StoreTypeOK
    BY AssetsAssumption DEF AssetsInit, StoreTypeOK, Configs, NotDiscarding
  <1>2. IsFiniteSet(db)
    BY FS_EmptySet DEF AssetsInit
  <1>3. DbInv /\ ConfigInv /\ IdsInv /\ FlightInv
    BY <1>2 DEF AssetsInit, DbInv, ConfigInv, IdsInv, FlightInv
  <1>4. MemoryInv
    <2>1. Elems(<<>>) = {} /\ Distinct(<<>>) /\ <<>> \in Seq(db) /\ Len(<<>>) = 0
      BY DEF Elems, Distinct
    <2>2. EmptyCold \in Queues(db) /\ EmptyCold.queue = <<>> /\ EmptyCold.ready = 0 /\ EmptyCold.available = 0
      BY <2>1 DEF Queues, EmptyCold
    <2>3. ColdOK(EmptyCold, db)
      BY <2>1, <2>2 DEF ColdOK
    <2>4. QED
      BY <2>1, <2>2, <2>3 DEF AssetsInit, MemoryInv
  <1>5. \A t \in Takers : takers[t].pc = "idle"
    BY DEF AssetsInit, Idle
  <1>6. HandsInv /\ DownInv
    BY <1>5 DEF AssetsInit, HandsInv, HasOne, DownInv
  <1>7. QED
    BY <1>1, <1>3, <1>4, <1>6 DEF AssetInv

\* Every step keeps it.
LEMMA NextAssetInv ==
  ASSUME AssetInv, [AssetsNext]_assetVars
  PROVE  AssetInv'
  <1>1. CASE delete_stale
    BY <1>1, DeleteStale
  <1>2. CASE new_store
    BY <1>2, NewStore
  <1>3. ASSUME NEW c \in {config} \cup NewConfigs, rerun(c) \/ restart(c) PROVE AssetInv'
    BY <1>3, JobEnds
  <1>4. ASSUME NEW p \in all_participants, peer_changes(p) PROVE AssetInv'
    BY <1>4, PeerKeeps
  <1>5. ASSUME NEW chosen \in SUBSET all_participants, generate(chosen) PROVE AssetInv'
    BY <1>5, GenerateKeeps
  <1>6. ASSUME NEW g \in in_flight, add_owned(g) \/ generation_fails(g) PROVE AssetInv'
    BY <1>6, AddOwned, GenerationFails
  <1>7. CASE maybe_discard_owned
    BY <1>7, DiscardBegins
  <1>8. CASE discard_ends
    BY <1>8, DiscardEnds
  <1>9. ASSUME NEW q \in IfDue(cold), discard_cold(q) \/ discard_hot(q) PROVE AssetInv'
    BY <1>9, DiscardColdKeeps, DiscardHotKeeps
  <1>10. ASSUME NEW t \in Takers, take_owned(t) \/ wait_ends(t) \/ cancel(t) PROVE AssetInv'
    BY <1>10, CallerKeeps
  <1>11. ASSUME NEW t \in Takers, hand_out(t) PROVE AssetInv'
    BY <1>11, HandOut
  <1>12. ASSUME NEW t \in Takers, NEW q \in IfDue(cold), take(t, q) \/ receive_hot(t, q) PROVE AssetInv'
    BY <1>12, TakeKeeps, ReceiveHotKeeps
  <1>13. CASE UNCHANGED assetVars
    <2>1. UNCHANGED <<db, db_epoch_data, config, running, clock, alive, last_id, hot, cold, in_flight,
                      takers, discarding, issued, used>>
      BY <1>13 DEF assetVars, memVars
    <2>2. StoreTypeOK' /\ DbInv' /\ ConfigInv' /\ IdsInv' /\ DownInv'
      BY <2>1 DEF AssetInv, StoreTypeOK, DbInv, ConfigInv, IdsInv, DownInv, Matches
    <2>3. FlightInv' /\ MemoryInv' /\ HandsInv'
      BY <2>1 DEF AssetInv, FlightInv, MemoryInv, HandsInv, HasOne, Pending
    <2>4. QED
      BY <2>2, <2>3 DEF AssetInv
  <1>14. QED
    BY <1>1, <1>2, <1>3, <1>4, <1>5, <1>6, <1>7, <1>8, <1>9, <1>10, <1>11, <1>12, <1>13 DEF AssetsNext

\* The inductive invariant of assets.rs: where an asset may be, and whose an id
\* is.
THEOREM AlwaysAssetInv == AssetsSpec => []AssetInv
  <1>1. AssetInv /\ [AssetsNext]_assetVars => AssetInv'
    BY NextAssetInv
  <1>2. QED
    BY <1>1, InitAssetInv, PTL DEF AssetsSpec

-----------------------------------------------------------------------------
(* What it implies.                                                        *)

\* The three sections of ColdQueue in assets.rs hold what they promise, for
\* any number of callers and whatever becomes alive or not: between cold_ready
\* and cold_available nothing is known, before it all elements can be used,
\* after it none.
THEOREM BarriersTheorem == AssetsSpec => []BarriersHold
  <1>1. AssetInv => BarriersHold
    BY DEF AssetInv, MemoryInv, ColdOK, BarriersHold
  <1>2. QED
    BY <1>1, AlwaysAssetInv, PTL

\* A store that is up holds only assets of its epoch, made with the nodes that
\* take part now (cleanup.rs), also when the node stopped between the deletion
\* and the record of the new configuration.
THEOREM ConfigTheorem == AssetsSpec => []AssetsOfThisConfig
  <1>1. AssetInv => AssetsOfThisConfig
    BY DEF AssetInv, ConfigInv, Matches, AssetsOfThisConfig
  <1>2. QED
    BY <1>1, AlwaysAssetInv, PTL

\* Two queues without a common element and without repetitions hold as many
\* assets as they are long.
LEMMA TwoQueues ==
  ASSUME NEW S, NEW s \in Seq(S), NEW r \in Seq(S), Distinct(s), Distinct(r), Elems(s) \cap Elems(r) = {}
  PROVE  Cardinality(Elems(s) \cup Elems(r)) = Len(s) + Len(r)
  <1> DEFINE m == Len(s)
             n == Len(r)
             E == Elems(s) \cup Elems(r)
             f == [i \in 1 .. m + n |-> IF i <= m THEN s[i] ELSE r[i - m]]
  <1>1. m \in Nat /\ n \in Nat /\ DOMAIN s = 1 .. m /\ DOMAIN r = 1 .. n
    BY LenProperties
  <1> HIDE DEF m, n
  <1>2. /\ \A i \in 1 .. m : f[i] = s[i] /\ i \in 1 .. m + n /\ s[i] \in Elems(s)
        /\ \A i \in 1 .. n : f[i + m] = r[i] /\ i + m \in 1 .. m + n /\ r[i] \in Elems(r)
    <2>1. ASSUME NEW i \in 1 .. m PROVE f[i] = s[i] /\ i \in 1 .. m + n /\ s[i] \in Elems(s)
      <3>1. i \in 1 .. m + n /\ i <= m
        BY <1>1
      <3>2. QED
        BY <1>1, <3>1 DEF Elems
    <2>2. ASSUME NEW i \in 1 .. n PROVE f[i + m] = r[i] /\ i + m \in 1 .. m + n /\ r[i] \in Elems(r)
      <3>1. i + m \in 1 .. m + n /\ ~ (i + m <= m) /\ (i + m) - m = i
        BY <1>1
      <3>2. QED
        BY <1>1, <3>1 DEF Elems
    <2>3. QED
      BY <2>1, <2>2
  <1>3. \A i \in 1 .. m + n : i \in 1 .. m \/ \E k \in 1 .. n : i = k + m
    <2> SUFFICES ASSUME NEW i \in 1 .. m + n, i \notin 1 .. m PROVE \E k \in 1 .. n : i = k + m
      OBVIOUS
    <2>1. i - m \in 1 .. n /\ i = (i - m) + m
      BY <1>1
    <2>2. QED
      BY <2>1
  <1>4. DOMAIN f = 1 .. m + n /\ f = [i \in 1 .. m + n |-> f[i]]
    OBVIOUS
  <1> HIDE DEF f
  <1>5. f \in [1 .. m + n -> E]
    <2>1. \A i \in 1 .. m + n : f[i] \in E
      BY <1>2, <1>3
    <2>2. QED
      BY <1>4, <2>1
  <1>6. \A i, j \in 1 .. m + n : f[i] = f[j] => i = j
    <2> SUFFICES ASSUME NEW i \in 1 .. m + n, NEW j \in 1 .. m + n, f[i] = f[j] PROVE i = j
      OBVIOUS
    <2>1. CASE i \in 1 .. m /\ j \in 1 .. m
      BY <1>1, <1>2, <2>1 DEF Distinct
    <2>2. CASE i \in 1 .. m /\ j \notin 1 .. m
      BY <1>2, <1>3, <2>2
    <2>3. CASE i \notin 1 .. m /\ j \in 1 .. m
      BY <1>2, <1>3, <2>3
    <2>4. CASE i \notin 1 .. m /\ j \notin 1 .. m
      <3>1. PICK k \in 1 .. n, l \in 1 .. n : i = k + m /\ j = l + m
        BY <1>3, <2>4
      <3>2. r[k] = r[l]
        BY <1>2, <3>1
      <3>3. QED
        BY <1>1, <3>1, <3>2 DEF Distinct
    <2>5. QED
      BY <2>1, <2>2, <2>3, <2>4
  <1>7. \A z \in E : \E i \in 1 .. m + n : f[i] = z
    <2>1. ASSUME NEW i \in 1 .. m PROVE \E j \in 1 .. m + n : f[j] = s[i]
      BY <1>2
    <2>2. ASSUME NEW i \in 1 .. n PROVE \E j \in 1 .. m + n : f[j] = r[i]
      BY <1>2
    <2>3. QED
      BY <1>1, <2>1, <2>2, SMTT(30) DEF Elems
  <1>8. IsFiniteSet(1 .. m + n) /\ Cardinality(1 .. m + n) = m + n
    <2>1. m + n \in Int /\ 1 \in Int /\ (1 > m + n => m + n = 0) /\ (m + n) - 1 + 1 = m + n
      BY <1>1
    <2>2. QED
      BY <2>1, FS_Interval
  <1>9. Cardinality(E) = Cardinality(1 .. m + n)
    <2> DEFINE D == 1 .. m + n
    <2>1. /\ IsFiniteSet(D) /\ f \in [D -> E] /\ \A i, j \in D : f[i] = f[j] => i = j
          /\ \A z \in E : \E i \in D : f[i] = z
      BY <1>5, <1>6, <1>7, <1>8
    <2> HIDE DEF D, E
    <2>2. Cardinality(E) = Cardinality(D)
      BY <2>1, SameCount
    <2>3. QED
      BY <2>2 DEF D
  <1>10. QED
    BY <1>8, <1>9 DEF E, m, n

\* take_owned hands an asset out at most once, over any number of callers,
\* discards and restarts: what is in memory or on its way to a caller is in one
\* place only, still in the database, and was never handed out.
THEOREM HandedOutTheorem == AssetsSpec => []HandedOutOnce
  <1>1. AssetInv => HandedOutOnce
    <2> SUFFICES ASSUME AssetInv PROVE HandedOutOnce
      OBVIOUS
    <2> DEFINE T == {t \in Takers : takers[t].pc = "taken"}
               f == [t \in T |-> takers[t].asset]
    <2>1. MemoryInv /\ HandsInv /\ DbInv
      BY DEF AssetInv
    <2>2. InMemory = Elems(hot) \cup Elems(cold.queue) /\ InMemory \subseteq db
      <3>1. InMemory = Elems(hot) \cup Elems(cold.queue)
        BY DEF InMemory, Elems
      <3>2. QED
        BY <2>1, <3>1, InDatabase
    <2>3. Cardinality(Held) = Cardinality(T)
      <3>1. IsFiniteSet(T)
        BY AssetsAssumption, FS_Subset
      <3>2. \A t \in T : f[t] = takers[t].asset /\ HasOne(t) /\ t \in Takers
        BY DEF HasOne
      <3>3. f \in [T -> Held] /\ \A z \in Held : \E t \in T : f[t] = z
        BY DEF Held
      <3> HIDE DEF T, f
      <3>4. \A t, u \in T : f[t] = f[u] => t = u
        BY <2>1, <3>2 DEF HandsInv
      <3>5. QED
        BY <3>1, <3>3, <3>4, SameCount
    <2>4. Len(hot) + Len(cold.queue) = Cardinality(InMemory)
      <3>1. /\ hot \in Seq(db) /\ cold.queue \in Seq(db) /\ Distinct(hot) /\ Distinct(cold.queue)
            /\ Elems(hot) \cap Elems(cold.queue) = {}
        BY <2>1 DEF MemoryInv, ColdOK, Queues
      <3>2. Cardinality(Elems(hot) \cup Elems(cold.queue)) = Len(hot) + Len(cold.queue)
        BY <3>1, TwoQueues
      <3>3. QED
        BY <2>2, <3>2
    <2>5. /\ \A a \in Held : a \in db /\ a \notin InMemory
          /\ \A a \in db : a.id \notin used
      BY <2>1, <2>2 DEF Held, HandsInv, HasOne, DbInv
    <2>6. QED
      BY <2>2, <2>3, <2>4, <2>5 DEF HandedOutOnce
  <1>2. QED
    BY <1>1, AlwaysAssetInv, PTL

\* generate_and_reserve_id_range reserves no id of `issued`, although what was
\* reserved is forgotten with every rerun of the job and every restart: neither
\* an id of an earlier second, nor one of this second that the running store
\* reserved or found in the database.  An id leaves `issued` only when the job
\* is rerun within its second and the database has nothing of it (Forgotten).
THEOREM FreshIdsTheorem == AssetsSpec => IdsNotReused
  <1>1. ASSUME AssetInv, [AssetsNext]_assetVars PROVE [FreshIds]_assetVars
    <2> SUFFICES ASSUME AssetsNext, NEW g \in in_flight' \ in_flight, g.added = 0
                 PROVE  IdRange(g.start) \cap issued = {}
      BY <1>1 DEF FreshIds
    <2>1. ASSUME NEW chosen \in SUBSET all_participants, generate(chosen)
          PROVE  IdRange(g.start) \cap issued = {}
      <3>1. g.start = FirstId /\ running = "running"
        BY <2>1 DEF generate
      <3>2. QED
        BY <1>1, <3>1, RangeFresh
    <2>2. ASSUME NEW h \in in_flight, add_owned(h)
          PROVE  FALSE
      <3>1. h \in Generations
        BY <1>1 DEF AssetInv, StoreTypeOK
      <3>2. g = [h EXCEPT !.added = @ + 1]
        BY <2>2 DEF add_owned
      <3>3. g.added = h.added + 1 /\ h.added \in Nat
        BY <3>1, <3>2 DEF Generations
      <3>4. QED
        BY <3>3
    <2>3. CASE \E chosen \in SUBSET all_participants : generate(chosen)
      BY <2>1, <2>3
    <2>4. CASE \E h \in in_flight : add_owned(h)
      BY <2>2, <2>4
    <2>5. ASSUME in_flight' \subseteq in_flight PROVE FALSE
      BY <2>5
    <2>6. \/ \E chosen \in SUBSET all_participants : generate(chosen)
          \/ \E h \in in_flight : add_owned(h)
          \/ in_flight' \subseteq in_flight
      BY DEF AssetsNext, delete_stale, new_store, rerun, restart, job_ends, peer_changes, generation_fails, maybe_discard_owned,
             discard_ends, discard_cold, discard_hot, take_owned, wait_ends, cancel, hand_out, take,
             receive_hot, storeUnchanged, memVars
    <2>7. QED
      BY <2>3, <2>4, <2>5, <2>6
  <1>2. QED
    BY <1>1, AlwaysAssetInv, PTL DEF AssetsSpec, IdsNotReused
=============================================================================
