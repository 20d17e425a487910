--------------------------- MODULE ChannelProofs ---------------------------
(***************************************************************************)
(* Proofs about computations over the mesh, for any number of nodes,       *)
(* channels and faults: the invariant that sender_for states, that an      *)
(* asset which the leader counts is held by all, and that a message of the *)
(* leader never outruns its Start.                                         *)
(*                                                                         *)
(* None of the three is inductive.  The inductive invariant, ChannelInv,   *)
(* says of every queue what may be in it: a Success only of a node that    *)
(* has its share (Sent, Arrived), and behind a Start everything else of    *)
(* its channel (Announced); of the waiting entries, that their ids differ; *)
(* and of the leader's channels, that their Start went out on the          *)
(* connection which they may still use.                                    *)
(***************************************************************************)
EXTENDS TaskChannels, SequenceTheorems, TLAPS

Kinds    == {"Start", "Data", "Success", "Abort"}
Messages == [id : Nat, kind : Kinds]
Heard    == [from : Nodes, kind : Kinds]
Channels == [versions : [Nodes -> [outgoing : Nat, incoming : Nat]], inbox : Seq(Heard),
             step : {"init", "compute", "wait", "done"},
             got : SUBSET Nodes, successful : SUBSET Nodes]

\* What a may have sent, what may have arrived for c, and what n may keep.
Sent(a) == {m \in Messages : /\ m.id <= last_id
                             /\ m.kind = "Success" => m.id \in shares[a]
                             /\ m.kind = "Start" => a = leader}

Arrived(c) == {h \in Heard : h.kind = "Success" => c \in shares[h.from]}

Kept(n) == {e \in [id : Nat, buffer : Seq(Heard)] :
               /\ e.id <= last_id
               /\ e.buffer \in Seq(Arrived(e.id))
               /\ n # leader /\ (\E j \in DOMAIN e.buffer : e.buffer[j].from = leader)
                     => e.id \in started[n]}

Queues == Seq(Messages)
OutgoingEnds == [version : Nat, up : BOOLEAN]
IncomingEnds == [version : Nat, up : BOOLEAN, id : Nat]

ConnectionTypeOK ==
    /\ outgoing \in [Nodes -> [Nodes -> OutgoingEnds]]
    /\ incoming \in [Nodes -> [Nodes -> IncomingEnds]]
    /\ connection_attempt \in [Nodes -> [Nodes -> Nat]]
    /\ read \in [Nodes -> [Nodes -> BOOLEAN]]
    /\ pipe \in [Nodes -> [Nodes -> Queues]]
    /\ old \in [Nodes -> [Nodes -> Queues]]

TaskTypeOK ==
    /\ last_id \in Nat
    /\ senders \in [Nodes -> SUBSET Nat]
    /\ started \in [Nodes -> SUBSET Nat]
    /\ shares \in [Nodes -> SUBSET Nat]
    /\ DOMAIN waiting = Nodes /\ DOMAIN channels = Nodes

QueuesInv == \A a, b \in Nodes : pipe[a][b] \in Seq(Sent(a)) /\ old[a][b] \in Seq(Sent(a))

\* The ids of entries differ.
Distinct(w) == \A i, j \in DOMAIN w : w[i].id = w[j].id => i = j

ChannelOK(n, c) ==
    /\ c \in Nat /\ c <= last_id /\ c \in started[n]
    /\ channels[n][c] \in Channels
    /\ channels[n][c].inbox \in Seq(Arrived(c))
    /\ \A p \in channels[n][c].successful : c \in shares[p]
    /\ channels[n][c].step = "done" => n # leader /\ c \in shares[n]

SenderOK(n) ==
    /\ senders[n] = WaitingFor(n) \cup live(n)
    /\ WaitingFor(n) \cap live(n) = {}
    /\ Len(waiting[n]) <= LRU_CAPACITY

NodeOK(n) ==
    /\ waiting[n] \in Seq(Kept(n)) /\ Distinct(waiting[n])
    /\ channels[n] = [c \in live(n) |-> channels[n][c]]
    /\ \A c \in live(n) : ChannelOK(n, c)
    /\ SenderOK(n)

\* In a queue of the leader, the Start of a channel comes first, or came.
StartsIn(q) == {q[i].id : i \in {k \in DOMAIN q : q[k].kind = "Start"}}

Announced(begun, q) ==
    \A i \in DOMAIN q : q[i].kind # "Start" =>
        q[i].id \in begun \/ \E j \in 1 .. i - 1 : q[j].id = q[i].id /\ q[j].kind = "Start"

\* The leader sent the Start of c to n on the connection that it may still use.
StartSent(n, c) ==
    /\ versions(leader, c)[n].outgoing <= outgoing[leader][n].version
    /\ outgoing_connection_asserting(leader, n, versions(leader, c)[n]) /\ read[leader][n] =>
          c \in started[n] \cup StartsIn(pipe[leader][n])

StartsInv ==
    \A n \in Followers : /\ Announced(started[n], pipe[leader][n])
                         /\ Announced(started[n], old[leader][n])
                         /\ \A c \in live(leader) : StartSent(n, c)

ChannelInv ==
    /\ ConnectionTypeOK /\ TaskTypeOK
    /\ QueuesInv /\ StartsInv /\ OwnedHeldByAll
    /\ \A n \in Nodes : NodeOK(n)

-----------------------------------------------------------------------------
(* Queues.                                                                 *)

EntryIds(w) == {w[i].id : i \in DOMAIN w}

\* The oldest entry is evicted: its id goes, the others stay.
LEMMA TailOfEntries ==
  ASSUME NEW S, NEW w \in Seq(S), w # <<>>, Distinct(w)
  PROVE  /\ Tail(w) \in Seq(S) /\ Distinct(Tail(w)) /\ Len(Tail(w)) = Len(w) - 1
         /\ EntryIds(Tail(w)) = EntryIds(w) \ {Head(w).id}
  <1>1. /\ Len(w) \in Nat /\ Len(w) > 0 /\ DOMAIN w = 1 .. Len(w) /\ Head(w) = w[1]
        /\ Tail(w) \in Seq(S) /\ Len(Tail(w)) = Len(w) - 1
        /\ DOMAIN Tail(w) = 1 .. Len(w) - 1
        /\ \A i \in 1 .. Len(w) - 1 : Tail(w)[i] = w[i + 1]
    BY HeadTailProperties, LenProperties, EmptySeq
  <1>2. Distinct(Tail(w))
    BY <1>1 DEF Distinct
  <1>3. \A i \in 1 .. Len(w) - 1 : i + 1 \in 1 .. Len(w) /\ w[i + 1].id # w[1].id
    BY <1>1 DEF Distinct
  <1>4. \A x \in EntryIds(w) : x # w[1].id => x \in EntryIds(Tail(w))
    <2> SUFFICES ASSUME NEW i \in 1 .. Len(w), w[i].id # w[1].id
                 PROVE  w[i].id \in EntryIds(Tail(w))
      BY <1>1 DEF EntryIds
    <2>1. i - 1 \in 1 .. Len(w) - 1 /\ Tail(w)[i - 1] = w[i]
      BY <1>1
    <2>2. QED
      BY <1>1, <2>1 DEF EntryIds
  <1>5. \A x \in EntryIds(Tail(w)) : x \in EntryIds(w) /\ x # w[1].id
    BY <1>1, <1>3 DEF EntryIds
  <1>6. QED
    BY <1>1, <1>2, <1>4, <1>5

\* An entry is popped: its id goes, the others stay.
LEMMA RemoveOfEntries ==
  ASSUME NEW S, NEW w \in Seq(S), Distinct(w), NEW k \in DOMAIN w
  PROVE  /\ RemoveAt(w, k) \in Seq(S) /\ Distinct(RemoveAt(w, k))
         /\ Len(RemoveAt(w, k)) = Len(w) - 1
         /\ EntryIds(RemoveAt(w, k)) = EntryIds(w) \ {w[k].id}
  <1> DEFINE r == RemoveAt(w, k)
             f == SubSeq(w, 1, k - 1)
             b == SubSeq(w, k + 1, Len(w))
  <1>1. /\ Len(w) \in Nat /\ DOMAIN w = 1 .. Len(w) /\ k \in 1 .. Len(w)
        /\ \A i \in 1 .. Len(w) : w[i] \in S
    BY LenProperties, ElementOfSeq
  <1>2. /\ f \in Seq(S) /\ Len(f) = k - 1
        /\ \A i \in 1 .. k - 1 : f[i] = w[i]
    BY <1>1, SubSeqProperties
  <1>3. /\ b \in Seq(S) /\ Len(b) = Len(w) - k
        /\ \A i \in 1 .. Len(w) - k : b[i] = w[k + i]
    <2>1. \A i \in k + 1 .. Len(w) : w[i] \in S
      BY <1>1
    <2>2. /\ b \in Seq(S) /\ Len(b) = IF k + 1 <= Len(w) THEN Len(w) - (k + 1) + 1 ELSE 0
          /\ \A i \in 1 .. Len(w) - (k + 1) + 1 : b[i] = w[(k + 1) + i - 1]
      BY <1>1, <2>1, SubSeqProperties
    <2>3. \A i \in 1 .. Len(w) - k : i \in 1 .. Len(w) - (k + 1) + 1 /\ (k + 1) + i - 1 = k + i
      BY <1>1
    <2> HIDE DEF b
    <2>4. QED
      BY <1>1, <2>2, <2>3
  <1>4. r = f \o b
    BY DEF RemoveAt
  <1> HIDE DEF r, f, b
  <1>5. /\ r \in Seq(S) /\ Len(r) = Len(w) - 1 /\ DOMAIN r = 1 .. Len(w) - 1
        /\ \A i \in 1 .. Len(w) - 1 : r[i] = IF i < k THEN w[i] ELSE w[i + 1]
    <2>1. /\ r \in Seq(S) /\ Len(r) = Len(f) + Len(b)
          /\ \A i \in 1 .. Len(f) + Len(b) : r[i] = IF i <= Len(f) THEN f[i] ELSE b[i - Len(f)]
      BY <1>2, <1>3, <1>4, ConcatProperties
    <2>2. \A i \in 1 .. Len(w) - 1 : r[i] = IF i < k THEN w[i] ELSE w[i + 1]
      <3> SUFFICES ASSUME NEW i \in 1 .. Len(w) - 1
                   PROVE  r[i] = IF i < k THEN w[i] ELSE w[i + 1]
        OBVIOUS
      <3>1. CASE i < k
        BY <3>1, <1>1, <1>2, <1>3, <2>1
      <3>2. CASE ~ (i < k)
        <4>1. i - Len(f) \in 1 .. Len(w) - k /\ k + (i - Len(f)) = i + 1
          BY <3>2, <1>1, <1>2
        <4>2. b[i - Len(f)] = w[i + 1]
          BY <4>1, <1>3
        <4>3. i \in 1 .. Len(f) + Len(b) /\ ~ (i <= Len(f))
          BY <3>2, <1>1, <1>2, <1>3
        <4>4. r[i] = b[i - Len(f)]
          BY <4>3, <2>1
        <4>5. QED
          BY <3>2, <4>2, <4>4
      <3>3. QED
        BY <3>1, <3>2
    <2>3. Len(f) + Len(b) = Len(w) - 1
      BY <1>1, <1>2, <1>3
    <2>4. DOMAIN r = 1 .. Len(r)
      BY <2>1, LenProperties
    <2>5. QED
      BY <2>1, <2>2, <2>3, <2>4
  <1>6. Distinct(r)
    <2> SUFFICES ASSUME NEW i \in 1 .. Len(w) - 1, NEW j \in 1 .. Len(w) - 1, r[i].id = r[j].id
                 PROVE  i = j
      BY <1>5 DEF Distinct
    <2> DEFINE at(x) == IF x < k THEN x ELSE x + 1
    <2>1. /\ at(i) \in 1 .. Len(w) /\ r[i] = w[at(i)]
          /\ at(j) \in 1 .. Len(w) /\ r[j] = w[at(j)]
      BY <1>1, <1>5
    <2>2. at(i) = at(j)
      <3> HIDE DEF at
      <3>1. QED
        BY <1>1, <2>1 DEF Distinct
    <2>3. QED
      BY <1>1, <2>2
  <1>7. \A x \in EntryIds(w) : x # w[k].id => x \in EntryIds(r)
    <2> SUFFICES ASSUME NEW i \in 1 .. Len(w), w[i].id # w[k].id
                 PROVE  w[i].id \in EntryIds(r)
      BY <1>1 DEF EntryIds
    <2>1. CASE i < k
      <3>1. i \in 1 .. Len(w) - 1 /\ r[i] = w[i]
        BY <1>1, <1>5, <2>1
      <3>2. QED
        BY <1>5, <3>1 DEF EntryIds
    <2>2. CASE ~ (i < k)
      <3>1. i - 1 \in 1 .. Len(w) - 1 /\ r[i - 1] = w[i]
        BY <1>1, <1>5, <2>2
      <3>2. QED
        BY <1>5, <3>1 DEF EntryIds
    <2>3. QED
      BY <2>1, <2>2
  <1>8. \A x \in EntryIds(r) : x \in EntryIds(w) /\ x # w[k].id
    <2> SUFFICES ASSUME NEW i \in 1 .. Len(w) - 1
                 PROVE  r[i].id \in EntryIds(w) /\ r[i].id # w[k].id
      BY <1>5 DEF EntryIds
    <2>1. PICK j \in 1 .. Len(w) : j # k /\ r[i] = w[j]
      BY <1>1, <1>5
    <2>2. QED
      BY <1>1, <2>1 DEF EntryIds, Distinct
  <1>9. QED
    BY <1>5, <1>6, <1>7, <1>8 DEF r

\* A new entry is pushed.
LEMMA AppendToEntries ==
  ASSUME NEW S, NEW w \in Seq(S), Distinct(w), NEW e \in S, e.id \notin EntryIds(w)
  PROVE  /\ Append(w, e) \in Seq(S) /\ Distinct(Append(w, e)) /\ Len(Append(w, e)) = Len(w) + 1
         /\ EntryIds(Append(w, e)) = EntryIds(w) \cup {e.id}
         /\ Head(Append(w, e)).id = IF w = <<>> THEN e.id ELSE Head(w).id
  <1>1. /\ Len(w) \in Nat /\ DOMAIN w = 1 .. Len(w) /\ Append(w, e) \in Seq(S)
        /\ Len(Append(w, e)) = Len(w) + 1 /\ DOMAIN Append(w, e) = 1 .. Len(w) + 1
        /\ \A i \in 1 .. Len(w) : Append(w, e)[i] = w[i]
        /\ Append(w, e)[Len(w) + 1] = e
    BY LenProperties, AppendProperties
  <1>2. \A i \in 1 .. Len(w) : w[i].id # e.id
    BY <1>1 DEF EntryIds
  <1>3. Distinct(Append(w, e))
    BY <1>1, <1>2 DEF Distinct
  <1>4. \A x : x \in EntryIds(Append(w, e)) => x \in EntryIds(w) \cup {e.id}
    BY <1>1 DEF EntryIds
  <1>5. \A x : x \in EntryIds(w) \cup {e.id} => x \in EntryIds(Append(w, e))
    <2>1. e.id \in EntryIds(Append(w, e))
      <3>1. Len(w) + 1 \in 1 .. Len(w) + 1
        BY <1>1
      <3>2. QED
        BY <1>1, <3>1 DEF EntryIds
    <2>2. \A i \in 1 .. Len(w) : w[i].id \in EntryIds(Append(w, e))
      <3> SUFFICES ASSUME NEW i \in 1 .. Len(w) PROVE w[i].id \in EntryIds(Append(w, e))
        OBVIOUS
      <3>1. i \in 1 .. Len(w) + 1 /\ Append(w, e)[i] = w[i]
        BY <1>1
      <3>2. QED
        BY <1>1, <3>1 DEF EntryIds
    <2>3. QED
      BY <1>1, <2>1, <2>2 DEF EntryIds
  <1>6. Head(Append(w, e)).id = IF w = <<>> THEN e.id ELSE Head(w).id
    BY HeadTailAppend
  <1>7. QED
    BY <1>1, <1>3, <1>4, <1>5, <1>6

\* More channels have begun.
LEMMA AnnouncedGrows ==
  ASSUME NEW B, NEW C, B \subseteq C, NEW q, Announced(B, q)
  PROVE  Announced(C, q)
  BY DEF Announced

\* Messages are sent after others.
LEMMA AnnouncedConcat ==
  ASSUME NEW S, NEW q \in Seq(S), NEW r \in Seq(S), NEW B,
         Announced(B, q), Announced(B \cup StartsIn(q), r)
  PROVE  /\ Announced(B, q \o r)
         /\ StartsIn(q) \subseteq StartsIn(q \o r)
         /\ StartsIn(r) \subseteq StartsIn(q \o r)
  <1> DEFINE s == q \o r
  <1>1. /\ Len(q) \in Nat /\ Len(r) \in Nat
        /\ DOMAIN q = 1 .. Len(q) /\ DOMAIN r = 1 .. Len(r) /\ DOMAIN s = 1 .. Len(q) + Len(r)
        /\ \A i \in 1 .. Len(q) : s[i] = q[i]
        /\ \A i \in 1 .. Len(r) : s[Len(q) + i] = r[i]
    <2>1. /\ s \in Seq(S) /\ Len(s) = Len(q) + Len(r)
          /\ \A i \in 1 .. Len(q) + Len(r) : s[i] = IF i <= Len(q) THEN q[i] ELSE r[i - Len(q)]
      BY ConcatProperties
    <2> HIDE DEF s
    <2>2. Len(q) \in Nat /\ Len(r) \in Nat
      BY LenProperties
    <2>3. \A i \in 1 .. Len(r) : s[Len(q) + i] = r[i]
      <3> SUFFICES ASSUME NEW i \in 1 .. Len(r) PROVE s[Len(q) + i] = r[i]
        OBVIOUS
      <3>1. /\ Len(q) + i \in 1 .. Len(q) + Len(r) /\ ~ (Len(q) + i <= Len(q))
            /\ (Len(q) + i) - Len(q) = i
        BY <2>2
      <3>2. QED
        BY <2>1, <3>1
    <2>4. \A i \in 1 .. Len(q) : s[i] = q[i]
      BY <2>1, <2>2
    <2>5. DOMAIN s = 1 .. Len(q) + Len(r) /\ DOMAIN q = 1 .. Len(q) /\ DOMAIN r = 1 .. Len(r)
      BY <2>1, LenProperties
    <2>6. QED
      BY <2>2, <2>3, <2>4, <2>5
  <1> HIDE DEF s
  <1>2. StartsIn(q) \subseteq StartsIn(s)
    <2> SUFFICES ASSUME NEW i \in 1 .. Len(q), q[i].kind = "Start" PROVE q[i].id \in StartsIn(s)
      BY <1>1 DEF StartsIn
    <2>1. i \in 1 .. Len(q) + Len(r) /\ s[i] = q[i]
      BY <1>1
    <2>2. QED
      BY <1>1, <2>1 DEF StartsIn
  <1>3. StartsIn(r) \subseteq StartsIn(s)
    <2> SUFFICES ASSUME NEW i \in 1 .. Len(r), r[i].kind = "Start" PROVE r[i].id \in StartsIn(s)
      BY <1>1 DEF StartsIn
    <2>1. Len(q) + i \in 1 .. Len(q) + Len(r) /\ s[Len(q) + i] = r[i]
      BY <1>1
    <2>2. QED
      BY <1>1, <2>1 DEF StartsIn
  <1>4. Announced(B, s)
    <2> SUFFICES ASSUME NEW i \in 1 .. Len(q) + Len(r), s[i].kind # "Start", s[i].id \notin B
                 PROVE  \E j \in 1 .. i - 1 : s[j].id = s[i].id /\ s[j].kind = "Start"
      BY <1>1 DEF Announced
    <2>1. CASE i <= Len(q)
      <3>1. i \in DOMAIN q /\ s[i] = q[i]
        BY <1>1, <2>1
      <3>2. PICK j \in 1 .. i - 1 : q[j].id = q[i].id /\ q[j].kind = "Start"
        BY <3>1 DEF Announced
      <3>3. s[j] = q[j]
        BY <1>1, <2>1
      <3>4. QED
        BY <3>1, <3>2, <3>3
    <2>2. CASE ~ (i <= Len(q))
      <3> DEFINE k == i - Len(q)
      <3>1. k \in 1 .. Len(r) /\ Len(q) + k = i
        BY <1>1, <2>2
      <3>2. s[i] = r[k]
        BY <1>1, <3>1
      <3> HIDE DEF k
      <3>3. CASE r[k].id \in StartsIn(q)
        <4>1. PICK j \in 1 .. Len(q) : q[j].id = r[k].id /\ q[j].kind = "Start"
          BY <1>1, <3>3 DEF StartsIn
        <4>2. j \in 1 .. i - 1 /\ s[j] = q[j]
          BY <1>1, <2>2
        <4>3. QED
          BY <3>2, <4>1, <4>2
      <3>4. CASE r[k].id \notin StartsIn(q)
        <4>1. PICK j \in 1 .. k - 1 : r[j].id = r[k].id /\ r[j].kind = "Start"
          BY <1>1, <3>1, <3>2, <3>4 DEF Announced
        <4>2. Len(q) + j \in 1 .. i - 1 /\ j \in 1 .. Len(r)
          BY <1>1, <3>1
        <4>3. s[Len(q) + j] = r[j]
          BY <1>1, <4>2
        <4>4. QED
          BY <3>2, <4>1, <4>2, <4>3
      <3>5. QED
        BY <3>3, <3>4
    <2>3. QED
      BY <2>1, <2>2
  <1>5. QED
    BY <1>2, <1>3, <1>4 DEF s

\* A message is read; if it is a Start, its channel begins.
LEMMA AnnouncedTail ==
  ASSUME NEW S, NEW q \in Seq(S), q # <<>>, NEW B, Announced(B, q), NEW C, B \subseteq C,
         Head(q).kind = "Start" => Head(q).id \in C
  PROVE  /\ Announced(C, Tail(q))
         /\ StartsIn(q) \subseteq C \cup StartsIn(Tail(q))
         /\ Head(q).kind # "Start" => Head(q).id \in B
  <1> DEFINE t == Tail(q)
  <1>1. /\ Len(q) \in Nat /\ Len(q) > 0 /\ DOMAIN q = 1 .. Len(q) /\ Head(q) = q[1]
        /\ DOMAIN t = 1 .. Len(q) - 1
        /\ \A i \in 1 .. Len(q) - 1 : t[i] = q[i + 1]
    BY HeadTailProperties, LenProperties, EmptySeq
  <1> HIDE DEF t
  <1>2. Announced(C, t)
    <2> SUFFICES ASSUME NEW i \in 1 .. Len(q) - 1, t[i].kind # "Start", t[i].id \notin C
                 PROVE  \E j \in 1 .. i - 1 : t[j].id = t[i].id /\ t[j].kind = "Start"
      BY <1>1 DEF Announced
    <2>1. i + 1 \in DOMAIN q /\ t[i] = q[i + 1]
      BY <1>1
    <2>2. PICK j \in 1 .. (i + 1) - 1 : q[j].id = q[i + 1].id /\ q[j].kind = "Start"
      BY <2>1 DEF Announced
    <2>3. j # 1
      BY <1>1, <2>1, <2>2
    <2>4. j - 1 \in 1 .. i - 1 /\ j - 1 \in 1 .. Len(q) - 1 /\ (j - 1) + 1 = j
      BY <1>1, <2>3
    <2>5. t[j - 1] = q[j]
      BY <1>1, <2>4
    <2>6. QED
      BY <2>1, <2>2, <2>4, <2>5
  <1>3. StartsIn(q) \subseteq C \cup StartsIn(t)
    <2> SUFFICES ASSUME NEW i \in 1 .. Len(q), q[i].kind = "Start"
                 PROVE  q[i].id \in C \cup StartsIn(t)
      BY <1>1 DEF StartsIn
    <2>1. CASE i = 1
      BY <1>1, <2>1
    <2>2. CASE i # 1
      <3>1. i - 1 \in 1 .. Len(q) - 1 /\ (i - 1) + 1 = i
        BY <1>1, <2>2
      <3>2. t[i - 1] = q[i]
        BY <1>1, <3>1
      <3>3. QED
        BY <1>1, <3>1, <3>2 DEF StartsIn
    <2>3. QED
      BY <2>1, <2>2
  <1>4. Head(q).kind # "Start" => Head(q).id \in B
    BY <1>1 DEF Announced
  <1>5. QED
    BY <1>2, <1>3, <1>4 DEF t

\* Only a prefix of what was sent arrives.
LEMMA PrefixOfQueue ==
  ASSUME NEW S, NEW q \in Seq(S), NEW p \in Prefixes(q)
  PROVE  /\ p \in Seq(S)
         /\ \E l \in 0 .. Len(q) : DOMAIN p = 1 .. l /\ \A i \in 1 .. l : p[i] = q[i]
  <1>1. PICK l \in 0 .. Len(q) : p = SubSeq(q, 1, l)
    BY DEF Prefixes
  <1>2. Len(q) \in Nat /\ \A i \in 1 .. l : q[i] \in S
    BY LenProperties, ElementOfSeq
  <1>3. /\ p \in Seq(S) /\ Len(p) = l
        /\ \A i \in 1 .. l : p[i] = q[i]
    <2>1. /\ p \in Seq(S) /\ Len(p) = IF 1 <= l THEN l - 1 + 1 ELSE 0
          /\ \A i \in 1 .. l - 1 + 1 : p[i] = q[1 + i - 1]
      BY <1>1, <1>2, SubSeqProperties
    <2>2. \A i \in 1 .. l : i \in 1 .. l - 1 + 1 /\ 1 + i - 1 = i
      BY <1>2
    <2>3. QED
      BY <2>1, <2>2
  <1>4. DOMAIN p = 1 .. l
    BY <1>3, LenProperties
  <1>5. QED
    BY <1>3, <1>4

\* In it a Start still comes first.
LEMMA AnnouncedPrefix ==
  ASSUME NEW S, NEW q \in Seq(S), NEW B, Announced(B, q), NEW p \in Prefixes(q)
  PROVE  Announced(B, p)
  <1>1. PICK l \in 0 .. Len(q) : DOMAIN p = 1 .. l /\ \A i \in 1 .. l : p[i] = q[i]
    BY PrefixOfQueue
  <1>2. Len(q) \in Nat /\ DOMAIN q = 1 .. Len(q)
    BY LenProperties
  <1>3. QED
    BY <1>1, <1>2 DEF Announced

-----------------------------------------------------------------------------
(* What the parts of a step do to the invariant.                           *)

\* Ids, shares and begun channels only become more.
Grows ==
    /\ last_id' \in Nat /\ last_id <= last_id'
    /\ shares' \in [Nodes -> SUBSET Nat] /\ started' \in [Nodes -> SUBSET Nat]
    /\ \A n \in Nodes : shares[n] \subseteq shares'[n] /\ started[n] \subseteq started'[n]

\* Then what may be in a queue stays allowed there.
LEMMA SetsGrow ==
  ASSUME TaskTypeOK, Grows, NEW n \in Nodes
  PROVE  /\ Sent(n) \subseteq Sent(n)'
         /\ \A c : Arrived(c) \subseteq Arrived(c)'
         /\ Kept(n) \subseteq Kept(n)'
         /\ \A q : q \in Seq(Sent(n)) => q \in Seq(Sent(n)')
         /\ \A c, q : q \in Seq(Arrived(c)) => q \in Seq(Arrived(c)')
         /\ \A q : q \in Seq(Kept(n)) => q \in Seq(Kept(n)')
  <1>1. Sent(n) \subseteq Sent(n)'
    BY DEF Sent, Messages, TaskTypeOK, Grows
  <1>2. \A c : Arrived(c) \subseteq Arrived(c)'
    BY DEF Arrived, Heard, TaskTypeOK, Grows
  <1>3. \A c, q : q \in Seq(Arrived(c)) => q \in Seq(Arrived(c)')
    BY <1>2, SeqMonotonic
  <1>4. Kept(n) \subseteq Kept(n)'
    <2> SUFFICES ASSUME NEW e \in Kept(n) PROVE e \in Kept(n)'
      OBVIOUS
    <2>1. e.id \in Nat /\ e.id <= last_id'
      BY DEF Kept, TaskTypeOK, Grows
    <2>2. e.buffer \in Seq(Arrived(e.id)')
      BY <1>3 DEF Kept
    <2>3. started[n] \subseteq started'[n]
      BY DEF Grows
    <2>4. QED
      BY <2>1, <2>2, <2>3 DEF Kept
  <1>5. QED
    BY <1>1, <1>2, <1>3, <1>4, SeqMonotonic

\* A channel that a step leaves alone.
LEMMA ChannelStays ==
  ASSUME TaskTypeOK, Grows, NEW n \in Nodes, NEW c, ChannelOK(n, c),
         channels'[n][c] = channels[n][c]
  PROVE  ChannelOK(n, c)'
  <1>1. channels[n][c].inbox \in Seq(Arrived(c)')
    BY SetsGrow DEF ChannelOK
  <1>2. c \in started'[n] /\ c \in Nat /\ c <= last_id'
    BY DEF ChannelOK, TaskTypeOK, Grows
  <1>3. \A p \in channels[n][c].successful : c \in shares'[p]
    BY DEF ChannelOK, Channels, Grows
  <1>4. channels[n][c].step = "done" => n # leader /\ c \in shares'[n]
    BY DEF ChannelOK, Grows
  <1>5. QED
    BY <1>1, <1>2, <1>3, <1>4 DEF ChannelOK

\* A node that a step leaves alone.
LEMMA NodeStays ==
  ASSUME TaskTypeOK, Grows, NEW n \in Nodes, NodeOK(n),
         channels'[n] = channels[n], waiting'[n] = waiting[n], senders'[n] = senders[n]
  PROVE  NodeOK(n)'
  <1>1. waiting'[n] \in Seq(Kept(n)')
    BY SetsGrow DEF NodeOK
  <1>2. \A c \in DOMAIN channels[n] : ChannelOK(n, c)'
    BY ChannelStays DEF NodeOK, live
  <1>3. SenderOK(n)' /\ Distinct(waiting'[n])
    BY DEF NodeOK, SenderOK, WaitingFor, live
  <1>4. QED
    BY <1>1, <1>2, <1>3 DEF NodeOK, live

Updated(n, c, new) == [channels EXCEPT ![n][c] = new]

\* The state of one channel changes.
LEMMA ChannelUpdated ==
  ASSUME TaskTypeOK, Grows, \A m \in Nodes : NodeOK(m),
         NEW n \in Nodes, NEW c \in live(n), NEW new,
         channels' = Updated(n, c, new), UNCHANGED <<waiting, senders>>,
         new \in Channels, new.inbox \in Seq(Arrived(c)'),
         \A p \in new.successful : c \in shares'[p],
         new.step = "done" => n # leader /\ c \in shares'[n]
  PROVE  /\ \A m \in Nodes : NodeOK(m)'
         /\ DOMAIN channels' = Nodes
         /\ \A m \in Nodes : DOMAIN channels'[m] = DOMAIN channels[m]
         /\ \A m \in Nodes : \A d \in live(m) : m # n \/ d # c => channels'[m][d] = channels[m][d]
         /\ channels'[n][c] = new
  <1>1. /\ DOMAIN channels' = Nodes
        /\ \A m \in Nodes : m # n => channels'[m] = channels[m]
        /\ channels'[n] = [channels[n] EXCEPT ![c] = new]
    BY DEF TaskTypeOK, Updated
  <1>2. /\ DOMAIN channels'[n] = live(n)
        /\ channels'[n] = [d \in live(n) |-> channels'[n][d]]
        /\ channels'[n][c] = new
        /\ \A d \in live(n) : d # c => channels'[n][d] = channels[n][d]
    <2>1. channels[n] = [d \in live(n) |-> channels[n][d]]
      BY DEF NodeOK
    <2>2. channels'[n] = [d \in live(n) |-> IF d = c THEN new ELSE channels[n][d]]
      BY <1>1, <2>1 DEF live
    <2>3. QED
      BY <2>2
  <1>3. NodeOK(n)'
    <2>1. \A d \in live(n) : d # c => ChannelOK(n, d)'
      BY <1>2, ChannelStays DEF NodeOK
    <2>2. ChannelOK(n, c)'
      <3>1. c \in Nat /\ c <= last_id' /\ c \in started'[n]
        BY DEF NodeOK, ChannelOK, TaskTypeOK, Grows
      <3>2. QED
        BY <3>1, <1>2 DEF ChannelOK
    <2>3. waiting'[n] \in Seq(Kept(n)')
      BY SetsGrow DEF NodeOK
    <2>4. SenderOK(n)' /\ Distinct(waiting'[n])
      <3>1. WaitingFor(n)' = WaitingFor(n) /\ live(n)' = live(n)
        BY <1>2 DEF WaitingFor, live
      <3>2. QED
        BY <3>1 DEF NodeOK, SenderOK
    <2>5. QED
      BY <1>2, <2>1, <2>2, <2>3, <2>4 DEF NodeOK, live
  <1>4. \A m \in Nodes : m # n => NodeOK(m)'
    BY <1>1, NodeStays
  <1>5. QED
    BY <1>1, <1>2, <1>3, <1>4 DEF live

\* A channel is dropped, and its sender with it (drop_fn).
LEMMA ChannelDropped ==
  ASSUME TaskTypeOK, Grows, \A m \in Nodes : NodeOK(m),
         NEW n \in Nodes, NEW c \in live(n), dropped(n, c), UNCHANGED waiting
  PROVE  /\ \A m \in Nodes : NodeOK(m)'
         /\ DOMAIN channels' = Nodes /\ senders' \in [Nodes -> SUBSET Nat]
         /\ \A m \in Nodes : \A d \in DOMAIN channels'[m] :
               d \in live(m) /\ channels'[m][d] = channels[m][d]
  <1>1. /\ DOMAIN channels' = Nodes
        /\ \A m \in Nodes : m # n => channels'[m] = channels[m]
        /\ channels'[n] = [d \in live(n) \ {c} |-> channels[n][d]]
    BY DEF TaskTypeOK, dropped, WithoutChannel
  <1>2. /\ senders' \in [Nodes -> SUBSET Nat]
        /\ \A m \in Nodes : m # n => senders'[m] = senders[m]
        /\ senders'[n] = senders[n] \ {c}
    BY DEF TaskTypeOK, dropped
  <1>3. /\ DOMAIN channels'[n] = live(n) \ {c}
        /\ channels'[n] = [d \in live(n) \ {c} |-> channels'[n][d]]
        /\ \A d \in live(n) \ {c} : channels'[n][d] = channels[n][d]
    BY <1>1
  <1>4. NodeOK(n)'
    <2>1. \A d \in live(n) \ {c} : ChannelOK(n, d)'
      BY <1>3, ChannelStays DEF NodeOK
    <2>2. waiting'[n] \in Seq(Kept(n)')
      BY SetsGrow DEF NodeOK
    <2>3. SenderOK(n)' /\ Distinct(waiting'[n])
      <3>1. WaitingFor(n)' = WaitingFor(n) /\ live(n)' = live(n) \ {c}
        BY <1>3 DEF WaitingFor, live
      <3>2. QED
        BY <1>2, <3>1, ZenonT(30) DEF NodeOK, SenderOK
    <2>4. QED
      BY <1>3, <2>1, <2>2, <2>3 DEF NodeOK, live
  <1>5. \A m \in Nodes : m # n => NodeOK(m)'
    BY <1>1, <1>2, NodeStays
  <1>6. QED
    BY <1>1, <1>2, <1>3, <1>4, <1>5 DEF live

\* Messages are sent, on the connections that the sender may use.
LEMMA MessagesSent ==
  ASSUME ConnectionTypeOK, TaskTypeOK, QueuesInv, Grows, NEW a \in Nodes, NEW to, NEW vs, NEW msgs,
         SendTo(a, to, vs, msgs), \A b \in Nodes : msgs[b] \in Seq(Sent(a)'), UNCHANGED old
  PROVE  /\ pipe' \in [Nodes -> [Nodes -> Queues]]
         /\ QueuesInv'
         /\ \A x, y \in Nodes : x # a => pipe'[x][y] = pipe[x][y]
         /\ \A y \in Nodes : pipe'[a][y] =
               IF y \in to /\ outgoing_connection_asserting(a, y, vs[y]) /\ read[a][y]
               THEN pipe[a][y] \o msgs[y] ELSE pipe[a][y]
  <1>1. \A x, y \in Nodes : x # a => pipe'[x][y] = pipe[x][y]
    BY DEF SendTo, ConnectionTypeOK
  <1>2. \A y \in Nodes : pipe'[a][y] =
               IF y \in to /\ outgoing_connection_asserting(a, y, vs[y]) /\ read[a][y]
               THEN pipe[a][y] \o msgs[y] ELSE pipe[a][y]
    BY DEF SendTo, ConnectionTypeOK
  <1>3. \A x, y \in Nodes : pipe[x][y] \in Seq(Sent(x)') /\ old[x][y] \in Seq(Sent(x)')
    BY SetsGrow DEF QueuesInv
  <1>4. \A x, y \in Nodes : pipe'[x][y] \in Seq(Sent(x)')
    <2> SUFFICES ASSUME NEW x \in Nodes, NEW y \in Nodes PROVE pipe'[x][y] \in Seq(Sent(x)')
      OBVIOUS
    <2>1. CASE x # a
      BY <1>1, <1>3, <2>1
    <2>2. CASE x = a
      <3>1. pipe[a][y] \o msgs[y] \in Seq(Sent(a)')
        BY <1>3, ConcatProperties
      <3>2. QED
        BY <1>2, <1>3, <2>2, <3>1
    <2>3. QED
      BY <2>1, <2>2
  <1>5. QueuesInv'
    BY <1>3, <1>4 DEF QueuesInv
  <1>6. pipe' \in [Nodes -> [Nodes -> Queues]]
    <2>1. \A x, y \in Nodes : pipe'[x][y] \in Queues
      <3>1. \A x : Sent(x)' \subseteq Messages
        BY DEF Sent
      <3>2. QED
        BY <1>4, <3>1, SeqMonotonic DEF Queues
    <2>2. pipe' = [pipe EXCEPT ![a] = [y \in Nodes |-> pipe'[a][y]]]
      <3>1. DOMAIN pipe = Nodes
        BY DEF ConnectionTypeOK
      <3>2. QED
        BY <3>1 DEF SendTo
    <2>3. pipe' = [x \in Nodes |-> [y \in Nodes |-> pipe'[x][y]]]
      BY <2>2, <1>1, ZenonT(30) DEF ConnectionTypeOK
    <2>4. QED
      BY <2>1, <2>3
  <1>7. QED
    BY <1>1, <1>2, <1>5, <1>6

\* Then everything of the leader is still announced, if the new messages are.
LEMMA SentIsAnnounced ==
  ASSUME ConnectionTypeOK, TaskTypeOK, QueuesInv, StartsInv, Grows, NEW a \in Nodes, NEW to, NEW vs, NEW msgs,
         SendTo(a, to, vs, msgs), \A b \in Nodes : msgs[b] \in Seq(Sent(a)'),
         UNCHANGED <<old, outgoing, read>>,
         \A c \in DOMAIN channels'[leader] :
            c \in live(leader) /\ channels'[leader][c].versions = channels[leader][c].versions,
         ASSUME NEW n \in Followers, a = leader, n \in to, read[a][n],
                outgoing_connection_asserting(a, n, vs[n])
         PROVE  Announced(started'[n] \cup StartsIn(pipe[a][n]), msgs[n])
  PROVE  StartsInv'
  <1> SUFFICES ASSUME NEW n \in Followers
               PROVE  /\ Announced(started'[n], pipe'[leader][n])
                      /\ Announced(started'[n], old'[leader][n])
                      /\ \A c \in DOMAIN channels'[leader] : StartSent(n, c)'
    BY DEF StartsInv, live
  <1>0. n \in Nodes /\ leader \in Nodes
    BY ChannelsAssumption DEF Followers
  <1>1. started[n] \subseteq started'[n]
    BY <1>0 DEF Grows
  <1>2. Announced(started'[n], old'[leader][n]) /\ Announced(started'[n], pipe[leader][n])
    BY <1>1, AnnouncedGrows DEF StartsInv
  <1>3. /\ Announced(started'[n], pipe'[leader][n])
        /\ StartsIn(pipe[leader][n]) \subseteq StartsIn(pipe'[leader][n])
    <2>1. CASE pipe'[leader][n] = pipe[leader][n]
      BY <1>2, <2>1
    <2>2. CASE /\ a = leader /\ n \in to /\ read[a][n] /\ outgoing_connection_asserting(a, n, vs[n])
               /\ pipe'[leader][n] = pipe[leader][n] \o msgs[n]
      <3>1. Announced(started'[n] \cup StartsIn(pipe[leader][n]), msgs[n])
        BY <2>2
      <3>2. pipe[leader][n] \in Seq(Sent(leader)') /\ msgs[n] \in Seq(Sent(leader)')
        BY <1>0, <2>2, SetsGrow DEF QueuesInv
      <3>3. QED
        BY <1>2, <2>2, <3>1, <3>2, AnnouncedConcat
    <2>3. a # leader => pipe'[leader][n] = pipe[leader][n]
      BY <1>0, MessagesSent
    <2>4. pipe'[a][n] = IF n \in to /\ outgoing_connection_asserting(a, n, vs[n]) /\ read[a][n]
                       THEN pipe[a][n] \o msgs[n] ELSE pipe[a][n]
      BY <1>0, MessagesSent
    <2>5. QED
      BY <2>1, <2>2, <2>3, <2>4
  <1>4. ASSUME NEW c \in DOMAIN channels'[leader] PROVE StartSent(n, c)'
    <2>1. c \in live(leader) /\ channels'[leader][c].versions = channels[leader][c].versions
      OBVIOUS
    <2>2. StartSent(n, c)
      BY <2>1 DEF StartsInv
    <2>3. QED
      BY <1>1, <1>3, <2>1, <2>2 DEF StartSent, versions, outgoing_connection_asserting
  <1>5. QED
    BY <1>2, <1>3, <1>4

\* A queue of one message.
LEMMA OneMessage ==
  ASSUME NEW S, NEW x \in S
  PROVE  <<x>> \in Seq(S) /\ DOMAIN <<x>> = {1} /\ <<x>>[1] = x
  OBVIOUS

\* A message of a live channel: its Start went before it on this connection.
LEMMA ChannelSends ==
  ASSUME ChannelInv, Grows, NEW n \in Nodes, NEW c \in live(n), NEW to,
         NEW kind \in {"Data", "Success", "Abort"}, kind = "Success" => c \in shares[n],
         SendTo(n, to, versions(n, c), Same(kind, c)), UNCHANGED <<old, outgoing, read>>,
         \A d \in DOMAIN channels'[leader] :
            d \in live(leader) /\ channels'[leader][d].versions = channels[leader][d].versions
  PROVE  /\ pipe' \in [Nodes -> [Nodes -> Queues]]
         /\ QueuesInv' /\ StartsInv'
  <1> DEFINE m == Message(c, kind)
             msgs == Same(kind, c)
  <1>1. m \in Sent(n)'
    <2>1. c \in Nat /\ c <= last_id' /\ (kind = "Success" => c \in shares'[n])
      BY DEF ChannelInv, NodeOK, ChannelOK, TaskTypeOK, Grows
    <2>2. QED
      BY <2>1 DEF Sent, Messages, Message, Kinds
  <1>2. m.id = c /\ m.kind = kind
    BY DEF Message
  <1>3. \A b \in Nodes : msgs[b] = <<m>>
    BY DEF Same
  <1> HIDE DEF m, msgs
  <1>4. \A b \in Nodes : msgs[b] \in Seq(Sent(n)')
    <2>1. <<m>> \in Seq(Sent(n)')
      BY <1>1
    <2>2. QED
      BY <1>3, <2>1
  <1>5. ASSUME NEW f \in Followers, n = leader, f \in to, read[n][f],
               outgoing_connection_asserting(n, f, versions(n, c)[f])
        PROVE  Announced(started'[f] \cup StartsIn(pipe[n][f]), msgs[f])
    <2>1. StartSent(f, c)
      BY <1>5 DEF ChannelInv, StartsInv
    <2>2. f \in Nodes
      BY <1>5 DEF Followers
    <2>3. c \in started'[f] \cup StartsIn(pipe[n][f])
      BY <1>5, <2>1, <2>2 DEF StartSent, Grows
    <2>4. DOMAIN <<m>> = {1} /\ <<m>>[1] = m
      OBVIOUS
    <2>5. QED
      BY <1>2, <1>3, <2>2, <2>3, <2>4 DEF Announced
  <1>6. pipe' \in [Nodes -> [Nodes -> Queues]] /\ QueuesInv'
    BY <1>4, MessagesSent DEF ChannelInv, msgs
  <1>7. StartsInv'
    BY <1>4, <1>5, SentIsAnnounced DEF ChannelInv, msgs
  <1>8. QED
    BY <1>6, <1>7

\* Nothing happens to the counts.
LEMMA SameGrows ==
  ASSUME TaskTypeOK, UNCHANGED <<last_id, shares, started>>
  PROVE  Grows
  BY DEF TaskTypeOK, Grows

\* A computation fails: it tells the others and its channel is dropped.
LEMMA FailsKeeps ==
  ASSUME ChannelInv, NEW n \in Nodes, NEW c \in live(n), fails(n, c)
  PROVE  ChannelInv'
  <1>1. UNCHANGED <<last_id, shares, started, waiting, owned, old, outgoing, incoming, read,
                    connection_attempt>> /\ dropped(n, c)
    BY DEF fails
  <1>2. Grows
    BY <1>1, SameGrows DEF ChannelInv
  <1>3. /\ \A m \in Nodes : NodeOK(m)'
        /\ DOMAIN channels' = Nodes /\ senders' \in [Nodes -> SUBSET Nat]
        /\ \A m \in Nodes : \A d \in DOMAIN channels'[m] :
              d \in live(m) /\ channels'[m][d] = channels[m][d]
    BY <1>1, <1>2, ChannelDropped DEF ChannelInv
  <1>4. pipe' \in [Nodes -> [Nodes -> Queues]] /\ QueuesInv' /\ StartsInv'
    <2>1. SendTo(n, FailureTo(n), versions(n, c), Same("Abort", c))
      BY DEF fails
    <2>2. QED
      BY <1>1, <1>2, <1>3, <2>1, ChannelSends, ChannelsAssumption
  <1>5. ConnectionTypeOK' /\ TaskTypeOK' /\ OwnedHeldByAll'
    BY <1>1, <1>3, <1>4 DEF ChannelInv, ConnectionTypeOK, TaskTypeOK, OwnedHeldByAll
  <1>6. QED
    BY <1>3, <1>4, <1>5 DEF ChannelInv

\* A follower begins to compute, and sends its data.
LEMMA InitializeKeeps ==
  ASSUME ChannelInv, NEW n \in Nodes, NEW c \in live(n), initialize_all_participants_connections(n, c)
  PROVE  ChannelInv'
  <1> DEFINE new == [channels[n][c] EXCEPT !.step = "compute"]
  <1>1. /\ UNCHANGED <<last_id, shares, started, waiting, owned, old, outgoing, incoming, read,
                       connection_attempt, senders>>
        /\ channels' = Updated(n, c, new)
    BY DEF initialize_all_participants_connections, UnchangedBySend, Updated
  <1>2. Grows
    BY <1>1, SameGrows DEF ChannelInv
  <1>3. ChannelOK(n, c)
    BY DEF ChannelInv, NodeOK
  <1>4. /\ new \in Channels /\ new.inbox = channels[n][c].inbox /\ new.step = "compute"
        /\ new.successful = channels[n][c].successful /\ new.versions = channels[n][c].versions
    BY <1>3 DEF ChannelOK, Channels
  <1>5. new.inbox \in Seq(Arrived(c)') /\ \A p \in new.successful : c \in shares'[p]
    BY <1>1, <1>2, <1>3, <1>4, SetsGrow DEF ChannelOK, ChannelInv
  <1> HIDE DEF new
  <1>6. /\ \A m \in Nodes : NodeOK(m)'
        /\ DOMAIN channels' = Nodes
        /\ \A m \in Nodes : DOMAIN channels'[m] = DOMAIN channels[m]
        /\ \A m \in Nodes : \A d \in live(m) : m # n \/ d # c => channels'[m][d] = channels[m][d]
        /\ channels'[n][c] = new
    <2>1. /\ TaskTypeOK /\ \A m \in Nodes : NodeOK(m)
          /\ new.step = "done" => n # leader /\ c \in shares'[n]
      BY <1>4 DEF ChannelInv
    <2>2. UNCHANGED <<waiting, senders>>
      BY <1>1
    <2>3. QED
      BY <1>1, <1>2, <1>4, <1>5, <2>1, <2>2, ChannelUpdated
  <1>7. \A d \in DOMAIN channels'[leader] :
            d \in live(leader) /\ channels'[leader][d].versions = channels[leader][d].versions
    BY <1>4, <1>6, ChannelsAssumption DEF live
  <1>8. pipe' \in [Nodes -> [Nodes -> Queues]] /\ QueuesInv' /\ StartsInv'
    <2>1. SendTo(n, TalksTo(n), versions(n, c), Same("Data", c))
      BY DEF initialize_all_participants_connections
    <2>2. QED
      BY <1>1, <1>2, <1>7, <2>1, ChannelSends
  <1>9. ConnectionTypeOK' /\ TaskTypeOK' /\ OwnedHeldByAll'
    BY <1>1, <1>6, <1>8 DEF ChannelInv, ConnectionTypeOK, TaskTypeOK, OwnedHeldByAll
  <1>10. QED
    BY <1>6, <1>8, <1>9 DEF ChannelInv

\* A follower that has its share tells the leader.
LEMMA SuccessKeeps ==
  ASSUME ChannelInv, NEW n \in Nodes, NEW c \in live(n), communicate_success(n, c)
  PROVE  ChannelInv'
  <1>1. UNCHANGED <<last_id, shares, started, waiting, owned, old, outgoing, incoming, read,
                    connection_attempt>> /\ dropped(n, c)
    BY DEF communicate_success, UnchangedBySend
  <1>2. Grows
    BY <1>1, SameGrows DEF ChannelInv
  <1>3. /\ \A m \in Nodes : NodeOK(m)'
        /\ DOMAIN channels' = Nodes /\ senders' \in [Nodes -> SUBSET Nat]
        /\ \A m \in Nodes : \A d \in DOMAIN channels'[m] :
              d \in live(m) /\ channels'[m][d] = channels[m][d]
    BY <1>1, <1>2, ChannelDropped DEF ChannelInv
  <1>4. pipe' \in [Nodes -> [Nodes -> Queues]] /\ QueuesInv' /\ StartsInv'
    <2>1. SendTo(n, {leader}, versions(n, c), Same("Success", c)) /\ channels[n][c].step = "done"
      BY DEF communicate_success
    <2>2. c \in shares[n]
      BY <2>1 DEF ChannelInv, NodeOK, ChannelOK
    <2>3. QED
      BY <1>1, <1>2, <1>3, <2>1, <2>2, ChannelSends, ChannelsAssumption
  <1>5. ConnectionTypeOK' /\ TaskTypeOK' /\ OwnedHeldByAll'
    BY <1>1, <1>3, <1>4 DEF ChannelInv, ConnectionTypeOK, TaskTypeOK, OwnedHeldByAll
  <1>6. QED
    BY <1>3, <1>4, <1>5 DEF ChannelInv

\* A step that sends and reads nothing.
LEMMA QuietKeeps ==
  ASSUME ChannelInv, Grows, UNCHANGED <<pipe, old, outgoing, read>>,
         \A d \in DOMAIN channels'[leader] :
            d \in live(leader) /\ channels'[leader][d].versions = channels[leader][d].versions
  PROVE  QueuesInv' /\ StartsInv'
  <1>1. QueuesInv'
    BY SetsGrow DEF ChannelInv, QueuesInv
  <1>2. StartsInv'
    <2> SUFFICES ASSUME NEW n \in Followers
                 PROVE  /\ Announced(started'[n], pipe[leader][n])
                        /\ Announced(started'[n], old[leader][n])
                        /\ \A c \in DOMAIN channels'[leader] : StartSent(n, c)'
      BY DEF StartsInv, live
    <2>1. started[n] \subseteq started'[n]
      BY DEF Grows, Followers
    <2>2. Announced(started'[n], old[leader][n]) /\ Announced(started'[n], pipe[leader][n])
      BY <2>1, AnnouncedGrows DEF StartsInv, ChannelInv
    <2>3. ASSUME NEW c \in DOMAIN channels'[leader] PROVE StartSent(n, c)'
      <3>1. StartSent(n, c)
        BY DEF ChannelInv, StartsInv
      <3>2. QED
        BY <2>1, <3>1 DEF StartSent, versions, outgoing_connection_asserting
    <2>4. QED
      BY <2>2, <2>3
  <1>3. QED
    BY <1>1, <1>2

\* A task reads the next message of its channel.
LEMMA ReceiveOneKeeps ==
  ASSUME ChannelInv, NEW n \in Nodes, NEW c \in live(n), receive_one(n, c)
  PROVE  ChannelInv'
  <1> DEFINE ch == channels[n][c]
             m == Head(ch.inbox)
             gs == IF m.kind = "Data" THEN ch.got \cup {m.from} ELSE ch.got
             ss == IF m.kind = "Success" THEN ch.successful \cup {m.from} ELSE ch.successful
             new == [ch EXCEPT !.inbox = Tail(ch.inbox), !.got = gs, !.successful = ss]
  <1>1. /\ UNCHANGED <<last_id, shares, started, waiting, owned, pipe, old, outgoing, incoming, read,
                       connection_attempt, senders>>
        /\ ch.inbox # <<>> /\ ch.step \in {"compute", "wait"}
    BY DEF receive_one, receiving, connVars
  <1>2. channels' = Updated(n, c, new)
    BY ZenonT(30) DEF receive_one, Updated
  <1>3. Grows
    BY <1>1, SameGrows DEF ChannelInv
  <1>4. ChannelOK(n, c) /\ ch \in Channels
    BY DEF ChannelInv, NodeOK, ChannelOK
  <1>5. m \in Arrived(c) /\ Tail(ch.inbox) \in Seq(Arrived(c))
    BY <1>1, <1>4, HeadTailProperties DEF ChannelOK
  <1>6. m \in Heard /\ Tail(ch.inbox) \in Seq(Heard)
    <2>1. Arrived(c) \subseteq Heard
      BY DEF Arrived
    <2>2. QED
      BY <1>5, <2>1, SeqMonotonic
  <1>7. gs \in SUBSET Nodes /\ ss \in SUBSET Nodes
    BY <1>4, <1>6 DEF Channels, Heard
  <1>8. \A p \in ss : c \in shares'[p]
    BY <1>1, <1>4, <1>5 DEF ChannelOK, Arrived
  <1>9. /\ new \in Channels /\ new.inbox = Tail(ch.inbox) /\ new.step = ch.step
        /\ new.successful = ss /\ new.versions = ch.versions
    <2> HIDE DEF gs, ss
    <2>1. QED
      BY <1>4, <1>6, <1>7 DEF Channels
  <1>10. new.inbox \in Seq(Arrived(c)') /\ \A p \in new.successful : c \in shares'[p]
    BY <1>3, <1>5, <1>8, <1>9, SetsGrow DEF ChannelInv
  <1>11. new.step = "done" => n # leader /\ c \in shares'[n]
    BY <1>1, <1>9
  <1> HIDE DEF new, gs, ss
  <1>12. /\ \A x \in Nodes : NodeOK(x)'
         /\ DOMAIN channels' = Nodes
         /\ \A x \in Nodes : DOMAIN channels'[x] = DOMAIN channels[x]
         /\ \A x \in Nodes : \A d \in live(x) : x # n \/ d # c => channels'[x][d] = channels[x][d]
         /\ channels'[n][c] = new
    <2>1. TaskTypeOK /\ \A x \in Nodes : NodeOK(x)
      BY DEF ChannelInv
    <2>2. UNCHANGED <<waiting, senders>>
      BY <1>1
    <2>3. QED
      BY <1>2, <1>3, <1>9, <1>10, <1>11, <2>1, <2>2, ChannelUpdated, ZenonT(30)
  <1>13. \A d \in DOMAIN channels'[leader] :
            d \in live(leader) /\ channels'[leader][d].versions = channels[leader][d].versions
    BY <1>9, <1>12, ChannelsAssumption DEF live
  <1>14. QueuesInv' /\ StartsInv'
    BY <1>1, <1>3, <1>13, QuietKeeps
  <1>15. ConnectionTypeOK' /\ TaskTypeOK' /\ OwnedHeldByAll'
    BY <1>1, <1>12 DEF ChannelInv, ConnectionTypeOK, TaskTypeOK, OwnedHeldByAll
  <1>16. QED
    BY <1>12, <1>14, <1>15 DEF ChannelInv

\* The protocol is done at one participant; a follower stores its share.
LEMMA ComputeReturnsKeeps ==
  ASSUME ChannelInv, NEW n \in Nodes, NEW c \in live(n), compute_returns(n, c)
  PROVE  ChannelInv'
  <1> DEFINE ch == channels[n][c]
             new == [ch EXCEPT !.step = IF n = leader THEN "wait" ELSE "done"]
  <1>1. /\ UNCHANGED <<last_id, started, waiting, owned, pipe, old, outgoing, incoming, read,
                       connection_attempt, senders>>
        /\ channels' = Updated(n, c, new)
        /\ shares' = [shares EXCEPT ![n] = IF n = leader THEN @ ELSE @ \cup {c}]
    BY DEF compute_returns, Updated, connVars
  <1>2. ChannelOK(n, c) /\ ch \in Channels /\ c \in Nat
    BY DEF ChannelInv, NodeOK, ChannelOK
  <1>3. Grows
    BY <1>1, <1>2 DEF ChannelInv, TaskTypeOK, Grows
  <1>4. /\ new \in Channels /\ new.inbox = ch.inbox /\ new.step = (IF n = leader THEN "wait" ELSE "done")
        /\ new.successful = ch.successful /\ new.versions = ch.versions
    BY <1>2 DEF Channels
  <1>5. new.inbox \in Seq(Arrived(c)')
    BY <1>2, <1>3, <1>4, SetsGrow DEF ChannelInv, ChannelOK
  <1>6. \A p \in new.successful : c \in shares'[p]
    BY <1>2, <1>3, <1>4 DEF ChannelOK, Channels, Grows
  <1>7. new.step = "done" => n # leader /\ c \in shares'[n]
    BY <1>1, <1>4 DEF ChannelInv, TaskTypeOK
  <1> HIDE DEF new
  <1>8. /\ \A x \in Nodes : NodeOK(x)'
        /\ DOMAIN channels' = Nodes
        /\ \A x \in Nodes : DOMAIN channels'[x] = DOMAIN channels[x]
        /\ \A x \in Nodes : \A d \in live(x) : x # n \/ d # c => channels'[x][d] = channels[x][d]
        /\ channels'[n][c] = new
    <2>1. TaskTypeOK /\ \A x \in Nodes : NodeOK(x)
      BY DEF ChannelInv
    <2>2. UNCHANGED <<waiting, senders>>
      BY <1>1
    <2>3. QED
      BY <1>1, <1>3, <1>4, <1>5, <1>6, <1>7, <2>1, <2>2, ChannelUpdated
  <1>9. \A d \in DOMAIN channels'[leader] :
            d \in live(leader) /\ channels'[leader][d].versions = channels[leader][d].versions
    BY <1>4, <1>8, ChannelsAssumption DEF live
  <1>10. QueuesInv' /\ StartsInv'
    BY <1>1, <1>3, <1>9, QuietKeeps
  <1>11. ConnectionTypeOK' /\ TaskTypeOK' /\ OwnedHeldByAll'
    BY <1>1, <1>3, <1>8 DEF ChannelInv, ConnectionTypeOK, TaskTypeOK, OwnedHeldByAll, Grows, Followers
  <1>12. QED
    BY <1>8, <1>10, <1>11 DEF ChannelInv

\* All followers told the leader that they succeeded: it counts the asset.
LEMMA AddOwnedKeeps ==
  ASSUME ChannelInv, NEW c \in live(leader), add_owned(c)
  PROVE  ChannelInv'
  <1>1. /\ UNCHANGED <<last_id, shares, started, waiting, pipe, old, outgoing, incoming, read,
                       connection_attempt>>
        /\ dropped(leader, c) /\ owned' = owned \cup {c}
        /\ channels[leader][c].successful = Followers
    BY DEF add_owned, all_succeeded, connVars
  <1>2. Grows /\ leader \in Nodes
    BY <1>1, SameGrows, ChannelsAssumption DEF ChannelInv
  <1>3. /\ \A m \in Nodes : NodeOK(m)'
        /\ DOMAIN channels' = Nodes /\ senders' \in [Nodes -> SUBSET Nat]
        /\ \A m \in Nodes : \A d \in DOMAIN channels'[m] :
              d \in live(m) /\ channels'[m][d] = channels[m][d]
    BY <1>1, <1>2, ChannelDropped DEF ChannelInv
  <1>4. QueuesInv' /\ StartsInv'
    BY <1>1, <1>2, <1>3, QuietKeeps
  <1>5. \A n \in Followers : c \in shares[n]
    BY <1>1, <1>2 DEF ChannelInv, NodeOK, ChannelOK
  <1>6. OwnedHeldByAll'
    BY <1>1, <1>5 DEF ChannelInv, OwnedHeldByAll
  <1>7. ConnectionTypeOK' /\ TaskTypeOK'
    BY <1>1, <1>3 DEF ChannelInv, ConnectionTypeOK, TaskTypeOK
  <1>8. QED
    BY <1>3, <1>4, <1>6, <1>7 DEF ChannelInv

-----------------------------------------------------------------------------
(* Connections.                                                            *)

\* A step of the connections leaves the nodes' tasks alone.
LEMMA ConnectionsOnly ==
  ASSUME ChannelInv, UNCHANGED chanVars
  PROVE  /\ Grows /\ TaskTypeOK' /\ OwnedHeldByAll'
         /\ \A n \in Nodes : NodeOK(n)'
  <1>1. UNCHANGED <<last_id, senders, waiting, channels, shares, owned, started, evicted>>
    BY DEF chanVars
  <1>2. Grows
    BY <1>1, SameGrows DEF ChannelInv
  <1>3. \A n \in Nodes : NodeOK(n)'
    BY <1>1, <1>2, NodeStays DEF ChannelInv
  <1>4. TaskTypeOK' /\ OwnedHeldByAll'
    BY <1>1 DEF ChannelInv, TaskTypeOK, OwnedHeldByAll
  <1>5. QED
    BY <1>2, <1>3, <1>4

\* A new connection: what was sent on the last one is not sent again, and its
\* version is above those of the channels.
LEMMA ConnectKeeps ==
  ASSUME ChannelInv, NEW a \in Nodes, NEW b \in Nodes, connect(a, b), UNCHANGED chanVars
  PROVE  ChannelInv'
  <1>1. /\ outgoing' = [outgoing EXCEPT ![a][b] = [version |-> outgoing[a][b].version + 1, up |-> TRUE]]
        /\ incoming' = [incoming EXCEPT ![b][a] =
             [version |-> incoming[b][a].version + 1, up |-> TRUE, id |-> connection_attempt[a][b]]]
        /\ pipe' = [pipe EXCEPT ![a][b] = <<>>]
        /\ read' = [read EXCEPT ![a][b] = TRUE]
        /\ UNCHANGED <<connection_attempt, old>>
    BY DEF connect
  <1>2. UNCHANGED <<last_id, channels, shares, started>>
    BY DEF chanVars
  <1>3. ConnectionTypeOK'
    <2>1. outgoing' \in [Nodes -> [Nodes -> OutgoingEnds]]
      <3>1. outgoing[a][b] \in OutgoingEnds
        BY DEF ChannelInv, ConnectionTypeOK
      <3>2. [version |-> outgoing[a][b].version + 1, up |-> TRUE] \in OutgoingEnds
        BY <3>1 DEF OutgoingEnds
      <3>3. QED
        BY <1>1, <3>2 DEF ChannelInv, ConnectionTypeOK
    <2>2. incoming' \in [Nodes -> [Nodes -> IncomingEnds]]
      <3>1. incoming[b][a] \in IncomingEnds /\ connection_attempt[a][b] \in Nat
        BY DEF ChannelInv, ConnectionTypeOK
      <3>2. [version |-> incoming[b][a].version + 1, up |-> TRUE, id |-> connection_attempt[a][b]]
               \in IncomingEnds
        BY <3>1 DEF IncomingEnds
      <3>3. QED
        BY <1>1, <3>2 DEF ChannelInv, ConnectionTypeOK
    <2>3. pipe' \in [Nodes -> [Nodes -> Queues]]
      BY <1>1, EmptySeq DEF ChannelInv, ConnectionTypeOK, Queues
    <2>4. read' \in [Nodes -> [Nodes -> BOOLEAN]]
      BY <1>1 DEF ChannelInv, ConnectionTypeOK
    <2>5. QED
      BY <1>1, <2>1, <2>2, <2>3, <2>4 DEF ChannelInv, ConnectionTypeOK
  <1>4. \A x, y \in Nodes :
           /\ pipe'[x][y] = IF x = a /\ y = b THEN <<>> ELSE pipe[x][y]
           /\ outgoing'[x][y] = IF x = a /\ y = b
                                THEN [version |-> outgoing[a][b].version + 1, up |-> TRUE]
                                ELSE outgoing[x][y]
           /\ read'[x][y] = IF x = a /\ y = b THEN TRUE ELSE read[x][y]
    BY <1>1 DEF ChannelInv, ConnectionTypeOK
  <1>5. QueuesInv'
    <2>1. \A x, y \in Nodes : /\ pipe[x][y] \in Seq(Sent(x)') /\ old[x][y] \in Seq(Sent(x)')
                              /\ <<>> \in Seq(Sent(x)')
      BY SetsGrow, ConnectionsOnly, EmptySeq DEF ChannelInv, QueuesInv
    <2>2. QED
      BY <1>1, <1>4, <2>1 DEF QueuesInv
  <1>6. StartsInv'
    <2> SUFFICES ASSUME NEW n \in Followers
                 PROVE  /\ Announced(started[n], pipe'[leader][n])
                        /\ Announced(started[n], old[leader][n])
                        /\ \A c \in live(leader) : StartSent(n, c)'
      BY <1>1, <1>2 DEF StartsInv, live
    <2>0. n \in Nodes /\ leader \in Nodes
      BY ChannelsAssumption DEF Followers
    <2>1. CASE leader = a /\ n = b
      <3>0. Announced(started[n], <<>>)
        BY DEF Announced
      <3>1. /\ pipe'[leader][n] = <<>>
            /\ outgoing'[leader][n] = [version |-> outgoing[a][b].version + 1, up |-> TRUE]
        BY <1>4, <2>0, <2>1
      <3>2. ASSUME NEW c \in live(leader) PROVE StartSent(n, c)'
        <4>1. versions(leader, c)[n].outgoing <= outgoing[a][b].version
          BY <2>1 DEF ChannelInv, StartsInv, StartSent
        <4>2. versions(leader, c)[n].outgoing \in Nat
          <5>1. channels[leader][c] \in Channels
            BY <2>0 DEF ChannelInv, NodeOK, ChannelOK
          <5>2. QED
            BY <2>0, <5>1 DEF Channels, versions
        <4>3. outgoing[a][b].version \in Nat
          BY DEF ChannelInv, ConnectionTypeOK, OutgoingEnds
        <4>4. outgoing'[leader][n].version = outgoing[a][b].version + 1
          BY <3>1
        <4>5. QED
          BY <1>2, <4>1, <4>2, <4>3, <4>4 DEF StartSent, versions, outgoing_connection_asserting
      <3>3. QED
        BY <3>0, <3>1, <3>2 DEF ChannelInv, StartsInv
    <2>2. CASE ~ (leader = a /\ n = b)
      <3>1. /\ pipe'[leader][n] = pipe[leader][n] /\ outgoing'[leader][n] = outgoing[leader][n]
            /\ read'[leader][n] = read[leader][n]
        BY <1>4, <2>0, <2>2
      <3>2. QED
        BY <1>2, <3>1 DEF ChannelInv, StartsInv, StartSent, versions, outgoing_connection_asserting
    <2>3. QED
      BY <2>1, <2>2
  <1>7. QED
    BY <1>3, <1>5, <1>6, ConnectionsOnly DEF ChannelInv

\* A connection of which no end is up again.
LEMMA OutgoingCloses ==
  ASSUME ChannelInv, UNCHANGED chanVars, UNCHANGED <<pipe, old, read>>, ConnectionTypeOK',
         \A x, y \in Nodes : /\ outgoing'[x][y].version = outgoing[x][y].version
                             /\ outgoing'[x][y].up => outgoing[x][y].up
  PROVE  ChannelInv'
  <1>1. UNCHANGED <<last_id, channels, shares, started>>
    BY DEF chanVars
  <1>2. QueuesInv'
    BY SetsGrow, ConnectionsOnly DEF ChannelInv, QueuesInv
  <1>3. StartsInv'
    <2> SUFFICES ASSUME NEW n \in Followers, NEW c \in live(leader) PROVE StartSent(n, c)'
      BY <1>1 DEF ChannelInv, StartsInv, live
    <2>1. StartSent(n, c) /\ n \in Nodes /\ leader \in Nodes
      BY ChannelsAssumption DEF ChannelInv, StartsInv, Followers
    <2>2. QED
      BY <1>1, <2>1 DEF StartSent, versions, outgoing_connection_asserting
  <1>4. QED
    BY <1>2, <1>3, ConnectionsOnly DEF ChannelInv

\* An end of a connection finds out that it is gone.
LEMMA CloseKeeps ==
  ASSUME ChannelInv, NEW a \in Nodes, NEW b \in Nodes, outgoing_closes(a, b) \/ incoming_closes(b, a),
         UNCHANGED chanVars
  PROVE  ChannelInv'
  <1>1. UNCHANGED <<pipe, old, read>>
    BY DEF outgoing_closes, incoming_closes
  <1>2. UNCHANGED <<last_id, channels, shares, started>>
    BY DEF chanVars
  <1>3. CASE outgoing_closes(a, b)
    <2> DEFINE closed == [outgoing[a][b] EXCEPT !.up = FALSE]
    <2>0. outgoing[a][b] \in OutgoingEnds
      BY DEF ChannelInv, ConnectionTypeOK
    <2>1. /\ closed \in OutgoingEnds
          /\ closed.version = outgoing[a][b].version /\ closed.up = FALSE
      BY <2>0 DEF OutgoingEnds
    <2>2. /\ outgoing' = [outgoing EXCEPT ![a][b] = closed] /\ UNCHANGED incoming
          /\ connection_attempt' = [connection_attempt EXCEPT ![a][b] = @ + 1]
      BY <1>3 DEF outgoing_closes
    <2> HIDE DEF closed
    <2>3. /\ outgoing' \in [Nodes -> [Nodes -> OutgoingEnds]]
          /\ \A x, y \in Nodes : outgoing'[x][y] = IF x = a /\ y = b THEN closed ELSE outgoing[x][y]
      BY <2>1, <2>2 DEF ChannelInv, ConnectionTypeOK
    <2>4. connection_attempt' \in [Nodes -> [Nodes -> Nat]]
      BY <2>2 DEF ChannelInv, ConnectionTypeOK
    <2>5. \A x, y \in Nodes : /\ outgoing'[x][y].version = outgoing[x][y].version
                              /\ outgoing'[x][y].up => outgoing[x][y].up
      BY <2>1, <2>3
    <2>6. ConnectionTypeOK'
      BY <1>1, <2>2, <2>3, <2>4 DEF ChannelInv, ConnectionTypeOK
    <2>7. QED
      BY <1>1, <2>5, <2>6, OutgoingCloses
  <1>4. CASE incoming_closes(b, a)
    <2> DEFINE closed == [incoming[b][a] EXCEPT !.up = FALSE]
    <2>0. incoming[b][a] \in IncomingEnds
      BY DEF ChannelInv, ConnectionTypeOK
    <2>1. closed \in IncomingEnds
      BY <2>0 DEF IncomingEnds
    <2>2. incoming' = [incoming EXCEPT ![b][a] = closed] /\ UNCHANGED <<outgoing, connection_attempt>>
      BY <1>4 DEF incoming_closes
    <2> HIDE DEF closed
    <2>3. ConnectionTypeOK'
      BY <1>1, <2>1, <2>2 DEF ChannelInv, ConnectionTypeOK
    <2>4. QED
      BY <1>1, <2>2, <2>3, OutgoingCloses
  <1>5. QED
    BY <1>3, <1>4

\* A connection breaks: a prefix of what is in it still arrives.
LEMMA BreakKeeps ==
  ASSUME ChannelInv, NEW a \in Nodes, NEW b \in Nodes, break(a, b), UNCHANGED chanVars
  PROVE  ChannelInv'
  <1>1. PICK rest \in Prefixes(pipe[a][b]) : old' = [old EXCEPT ![a][b] = old[a][b] \o rest]
    BY DEF break
  <1>2. /\ read' = [read EXCEPT ![a][b] = FALSE] /\ pipe' = [pipe EXCEPT ![a][b] = <<>>]
        /\ UNCHANGED <<outgoing, incoming, connection_attempt>>
    BY DEF break
  <1>3. UNCHANGED <<last_id, channels, shares, started>>
    BY DEF chanVars
  <1>4. pipe[a][b] \in Seq(Sent(a)) /\ old[a][b] \in Seq(Sent(a))
    BY DEF ChannelInv, QueuesInv
  <1>5. rest \in Seq(Sent(a))
    BY <1>1, <1>4, PrefixOfQueue
  <1>6. old[a][b] \o rest \in Seq(Sent(a))
    BY <1>4, <1>5, ConcatProperties
  <1>7. old[a][b] \o rest \in Queues
    <2>1. Sent(a) \subseteq Messages
      BY DEF Sent
    <2>2. QED
      BY <1>6, <2>1, SeqMonotonic DEF Queues
  <1>8. \A x, y \in Nodes :
           /\ pipe'[x][y] = IF x = a /\ y = b THEN <<>> ELSE pipe[x][y]
           /\ old'[x][y] = IF x = a /\ y = b THEN old[a][b] \o rest ELSE old[x][y]
           /\ read'[x][y] = IF x = a /\ y = b THEN FALSE ELSE read[x][y]
    BY <1>1, <1>2 DEF ChannelInv, ConnectionTypeOK
  <1>9. ConnectionTypeOK'
    BY <1>1, <1>2, <1>7, EmptySeq DEF ChannelInv, ConnectionTypeOK, Queues
  <1>10. QueuesInv'
    <2>1. \A x, y \in Nodes : pipe'[x][y] \in Seq(Sent(x)) /\ old'[x][y] \in Seq(Sent(x))
      BY <1>6, <1>8, EmptySeq, ZenonT(30) DEF ChannelInv, QueuesInv
    <2>2. QED
      BY <2>1, SetsGrow, ConnectionsOnly DEF ChannelInv, QueuesInv
  <1>11. StartsInv'
    <2> SUFFICES ASSUME NEW n \in Followers
                 PROVE  /\ Announced(started[n], pipe'[leader][n])
                        /\ Announced(started[n], old'[leader][n])
                        /\ \A c \in live(leader) : StartSent(n, c)'
      BY <1>3 DEF StartsInv, live
    <2>0. n \in Nodes /\ leader \in Nodes
      BY ChannelsAssumption DEF Followers
    <2>1. CASE leader = a /\ n = b
      <3>1. /\ pipe'[leader][n] = <<>> /\ old'[leader][n] = old[a][b] \o rest
            /\ read'[leader][n] = FALSE
        BY <1>8, <2>0, <2>1
      <3>2. Announced(started[n], <<>>)
        BY DEF Announced
      <3>3. Announced(started[n], old[a][b]) /\ Announced(started[n], pipe[a][b])
        BY <2>1 DEF ChannelInv, StartsInv
      <3>4. Announced(started[n], rest)
        BY <1>1, <1>4, <3>3, AnnouncedPrefix
      <3>5. Announced(started[n] \cup StartsIn(old[a][b]), rest)
        BY <3>4, AnnouncedGrows
      <3>6. Announced(started[n], old[a][b] \o rest)
        BY <1>4, <1>5, <3>3, <3>5, AnnouncedConcat
      <3>7. \A c \in live(leader) : StartSent(n, c)'
        BY <1>2, <1>3, <3>1 DEF ChannelInv, StartsInv, StartSent, versions
      <3>8. QED
        BY <3>1, <3>2, <3>6, <3>7
    <2>2. CASE ~ (leader = a /\ n = b)
      <3>1. /\ pipe'[leader][n] = pipe[leader][n] /\ old'[leader][n] = old[leader][n]
            /\ read'[leader][n] = read[leader][n]
        BY <1>8, <2>0, <2>2
      <3>2. QED
        BY <1>2, <1>3, <3>1 DEF ChannelInv, StartsInv, StartSent, versions, outgoing_connection_asserting
    <2>3. QED
      BY <2>1, <2>2
  <1>12. QED
    BY <1>9, <1>10, <1>11, ConnectionsOnly DEF ChannelInv

\* A node crashes: it starts with its shares, and of what it sent a prefix
\* still arrives.
LEMMA CrashKeeps ==
  ASSUME ChannelInv, NEW n \in Nodes, crash(n)
  PROVE  ChannelInv'
  <1>1. PICK rest \in [Nodes -> UNION {Prefixes(pipe[n][b]) : b \in Nodes}] :
           /\ \A b \in Nodes : rest[b] \in Prefixes(pipe[n][b])
           /\ old' = [a \in Nodes |-> [b \in Nodes |->
                IF b = n THEN <<>> ELSE IF a = n THEN old[a][b] \o rest[b] ELSE old[a][b]]]
    BY DEF crash, connections_crash
  <1>2. /\ outgoing' = [outgoing EXCEPT ![n] = [b \in Nodes |-> [version |-> 0, up |-> FALSE]]]
        /\ incoming' = [incoming EXCEPT ![n] = [a \in Nodes |-> [version |-> 0, up |-> FALSE, id |-> 0]]]
        /\ connection_attempt' = [connection_attempt EXCEPT ![n] = [b \in Nodes |-> 0]]
        /\ read' = [a \in Nodes |-> [b \in Nodes |-> read[a][b] /\ a # n /\ b # n]]
        /\ pipe' = [a \in Nodes |-> [b \in Nodes |-> IF a = n \/ b = n THEN <<>> ELSE pipe[a][b]]]
    BY DEF crash, connections_crash
  <1>3. /\ channels' = [channels EXCEPT ![n] = <<>>]
        /\ senders' = [senders EXCEPT ![n] = {}]
        /\ waiting' = [waiting EXCEPT ![n] = <<>>]
        /\ UNCHANGED <<last_id, shares, owned, started>>
    BY DEF crash
  <1>4. Grows
    BY <1>3, SameGrows DEF ChannelInv
  <1>5. \A x, y \in Nodes : pipe[x][y] \in Seq(Sent(x)) /\ old[x][y] \in Seq(Sent(x))
    BY DEF ChannelInv, QueuesInv
  <1>6. \A y \in Nodes : rest[y] \in Seq(Sent(n))
    BY <1>1, <1>5, PrefixOfQueue
  <1>7. \A x, y \in Nodes : pipe'[x][y] \in Seq(Sent(x)) /\ old'[x][y] \in Seq(Sent(x))
    <2> SUFFICES ASSUME NEW x \in Nodes, NEW y \in Nodes
                 PROVE  pipe'[x][y] \in Seq(Sent(x)) /\ old'[x][y] \in Seq(Sent(x))
      OBVIOUS
    <2>1. <<>> \in Seq(Sent(x)) /\ old[n][y] \o rest[y] \in Seq(Sent(n))
      BY <1>5, <1>6, EmptySeq, ConcatProperties
    <2>2. pipe'[x][y] = IF x = n \/ y = n THEN <<>> ELSE pipe[x][y]
      BY <1>2
    <2>3. old'[x][y] = IF y = n THEN <<>> ELSE IF x = n THEN old[x][y] \o rest[y] ELSE old[x][y]
      BY <1>1
    <2>4. QED
      BY <1>5, <2>1, <2>2, <2>3
  <1>8. QueuesInv'
    BY <1>4, <1>7, SetsGrow DEF ChannelInv, QueuesInv
  <1>9. ConnectionTypeOK'
    <2>1. \A x, y \in Nodes : pipe'[x][y] \in Queues /\ old'[x][y] \in Queues
      <3>1. \A x : Sent(x) \subseteq Messages
        BY DEF Sent
      <3>2. QED
        BY <1>7, <3>1, SeqMonotonic DEF Queues
    <2>2. pipe' = [x \in Nodes |-> [y \in Nodes |-> pipe'[x][y]]]
      BY <1>2
    <2>3. old' = [x \in Nodes |-> [y \in Nodes |-> old'[x][y]]]
      BY <1>1
    <2>4. pipe' \in [Nodes -> [Nodes -> Queues]] /\ old' \in [Nodes -> [Nodes -> Queues]]
      BY <2>1, <2>2, <2>3
    <2>5. outgoing' \in [Nodes -> [Nodes -> OutgoingEnds]]
      <3>1. [version |-> 0, up |-> FALSE] \in OutgoingEnds
        BY DEF OutgoingEnds
      <3>2. QED
        BY <1>2, <3>1 DEF ChannelInv, ConnectionTypeOK
    <2>6. incoming' \in [Nodes -> [Nodes -> IncomingEnds]]
      <3>1. [version |-> 0, up |-> FALSE, id |-> 0] \in IncomingEnds
        BY DEF IncomingEnds
      <3>2. QED
        BY <1>2, <3>1 DEF ChannelInv, ConnectionTypeOK
    <2>7. /\ connection_attempt' \in [Nodes -> [Nodes -> Nat]]
          /\ read' \in [Nodes -> [Nodes -> BOOLEAN]]
      BY <1>2 DEF ChannelInv, ConnectionTypeOK
    <2>8. QED
      BY <2>4, <2>5, <2>6, <2>7 DEF ConnectionTypeOK
  <1>10. /\ \A x \in Nodes : x # n => /\ channels'[x] = channels[x] /\ waiting'[x] = waiting[x]
                                      /\ senders'[x] = senders[x]
         /\ channels'[n] = <<>> /\ waiting'[n] = <<>> /\ senders'[n] = {}
    BY <1>3 DEF ChannelInv, TaskTypeOK
  <1>11. TaskTypeOK' /\ OwnedHeldByAll'
    BY <1>3 DEF ChannelInv, TaskTypeOK, OwnedHeldByAll
  <1>12. \A x \in Nodes : NodeOK(x)'
    <2>1. \A x \in Nodes : x # n => NodeOK(x)'
      BY <1>4, <1>10, NodeStays DEF ChannelInv
    <2>2. NodeOK(n)'
      <3>1. live(n)' = {} /\ channels'[n] = [c \in {} |-> channels'[n][c]]
        BY <1>10 DEF live
      <3>2. waiting'[n] \in Seq(Kept(n)') /\ Distinct(waiting'[n]) /\ WaitingFor(n)' = {} /\ Len(waiting'[n]) = 0
        BY <1>10, EmptySeq DEF Distinct, WaitingFor
      <3>3. QED
        BY <1>10, <3>1, <3>2, ChannelsAssumption DEF NodeOK, SenderOK
    <2>3. QED
      BY <2>1, <2>2
  <1>13. StartsInv'
    <2> SUFFICES ASSUME NEW f \in Followers
                 PROVE  /\ Announced(started[f], pipe'[leader][f])
                        /\ Announced(started[f], old'[leader][f])
                        /\ \A c \in DOMAIN channels'[leader] : StartSent(f, c)'
      BY <1>3 DEF StartsInv, live
    <2>0. f \in Nodes /\ leader \in Nodes /\ f # leader
      BY ChannelsAssumption DEF Followers
    <2>1. Announced(started[f], <<>>)
      BY DEF Announced
    <2>2. Announced(started[f], old[leader][f]) /\ Announced(started[f], pipe[leader][f])
      BY DEF ChannelInv, StartsInv
    <2>3. CASE f = n
      <3>1. pipe'[leader][f] = <<>> /\ old'[leader][f] = <<>> /\ ~ read'[leader][f]
        BY <1>1, <1>2, <2>0, <2>3
      <3>2. channels'[leader] = channels[leader] /\ outgoing'[leader] = outgoing[leader]
        BY <1>2, <1>10, <2>0, <2>3 DEF ChannelInv, ConnectionTypeOK
      <3>3. \A c \in live(leader) : StartSent(f, c)'
        BY <3>1, <3>2 DEF ChannelInv, StartsInv, StartSent, versions
      <3>4. QED
        BY <2>1, <3>1, <3>2, <3>3 DEF live
    <2>4. CASE leader = n
      <3>1. pipe'[leader][f] = <<>> /\ old'[leader][f] = old[leader][f] \o rest[f]
        BY <1>1, <1>2, <2>0, <2>4
      <3>2. Announced(started[f], rest[f])
        BY <1>1, <1>5, <2>0, <2>2, <2>4, AnnouncedPrefix
      <3>3. Announced(started[f] \cup StartsIn(old[leader][f]), rest[f])
        BY <3>2, AnnouncedGrows
      <3>4. Announced(started[f], old[leader][f] \o rest[f])
        BY <1>5, <1>6, <2>0, <2>2, <2>4, <3>3, AnnouncedConcat
      <3>5. DOMAIN channels'[leader] = {}
        BY <1>10, <2>4
      <3>6. QED
        BY <2>1, <3>1, <3>4, <3>5
    <2>5. CASE f # n /\ leader # n
      <3>1. /\ pipe'[leader][f] = pipe[leader][f] /\ old'[leader][f] = old[leader][f]
            /\ read'[leader][f] = read[leader][f]
        BY <1>1, <1>2, <2>0, <2>5 DEF ChannelInv, ConnectionTypeOK
      <3>2. channels'[leader] = channels[leader] /\ outgoing'[leader] = outgoing[leader]
        BY <1>2, <1>10, <2>0, <2>5 DEF ChannelInv, ConnectionTypeOK
      <3>3. \A c \in live(leader) : StartSent(f, c)'
        BY <1>3, <3>1, <3>2 DEF ChannelInv, StartsInv, StartSent, versions, outgoing_connection_asserting
      <3>4. QED
        BY <2>2, <3>1, <3>2, <3>3 DEF live
    <2>6. QED
      BY <2>3, <2>4, <2>5
  <1>14. QED
    BY <1>8, <1>9, <1>11, <1>12, <1>13 DEF ChannelInv

-----------------------------------------------------------------------------
(* Messages arrive, and channels begin.                                    *)

\* b reads the next message of a.  One of the leader is a Start, or its channel
\* has begun.
LEMMA MessageRead ==
  ASSUME ChannelInv, NEW a \in Nodes, NEW b \in Nodes, NEW q \in Readable(a, b)
  PROVE  /\ NextMessage(a, b, q) \in Sent(a)
         /\ a = leader /\ b \in Followers /\ NextMessage(a, b, q).kind # "Start" =>
               NextMessage(a, b, q).id \in started[b]
  <1>1. pipe[a][b] \in Seq(Sent(a)) /\ old[a][b] \in Seq(Sent(a))
    BY DEF ChannelInv, QueuesInv
  <1>2. /\ q = "pipe" => pipe[a][b] # <<>> /\ NextMessage(a, b, q) = Head(pipe[a][b])
        /\ q # "pipe" => old[a][b] # <<>> /\ NextMessage(a, b, q) = Head(old[a][b])
    BY DEF Readable, NextMessage
  <1>3. NextMessage(a, b, q) \in Sent(a)
    BY <1>1, <1>2, HeadTailProperties
  <1>4. ASSUME a = leader, b \in Followers, NextMessage(a, b, q).kind # "Start"
        PROVE  NextMessage(a, b, q).id \in started[b]
    <2>1. Announced(started[b], pipe[a][b]) /\ Announced(started[b], old[a][b])
      BY <1>4 DEF ChannelInv, StartsInv
    <2>2. CASE q = "pipe"
      BY <1>1, <1>2, <1>4, <2>1, <2>2, AnnouncedTail
    <2>3. CASE q # "pipe"
      BY <1>1, <1>2, <1>4, <2>1, <2>3, AnnouncedTail
    <2>4. QED
      BY <2>2, <2>3
  <1>5. QED
    BY <1>3, <1>4

With(f, a, b, v) == [f EXCEPT ![a][b] = v]

\* The next message of one queue of a table of queues is taken.
LEMMA QueueRead ==
  ASSUME NEW f \in [Nodes -> [Nodes -> Queues]], NEW a \in Nodes, NEW b \in Nodes,
         f[a][b] # <<>>
  PROVE  /\ With(f, a, b, Tail(f[a][b])) \in [Nodes -> [Nodes -> Queues]]
         /\ \A x, y \in Nodes :
               With(f, a, b, Tail(f[a][b]))[x][y] = IF x = a /\ y = b THEN Tail(f[a][b]) ELSE f[x][y]
  <1> DEFINE rest == Tail(f[a][b])
  <1>1. rest \in Queues
    BY HeadTailProperties DEF Queues
  <1> HIDE DEF rest
  <1>2. /\ With(f, a, b, rest) \in [Nodes -> [Nodes -> Queues]]
        /\ \A x, y \in Nodes : With(f, a, b, rest)[x][y] = IF x = a /\ y = b THEN rest ELSE f[x][y]
    BY <1>1 DEF With
  <1>3. QED
    BY <1>2 DEF rest

\* What is left to read is still announced, if a Start that was read began its
\* channel.
LEMMA ReadKeeps ==
  ASSUME ChannelInv, Grows, NEW a \in Nodes, NEW b \in Nodes, NEW q \in Readable(a, b),
         pipe' = ReadFrom(pipe, a, b, q), old' = OldReadFrom(a, b, q),
         UNCHANGED <<outgoing, incoming, connection_attempt, read>>,
         NextMessage(a, b, q).kind = "Start" => NextMessage(a, b, q).id \in started'[b],
         \A d \in DOMAIN channels'[leader] :
            d \in live(leader) /\ channels'[leader][d].versions = channels[leader][d].versions
  PROVE  ConnectionTypeOK' /\ QueuesInv' /\ StartsInv'
  <1>1. pipe[a][b] \in Seq(Sent(a)) /\ old[a][b] \in Seq(Sent(a))
    BY DEF ChannelInv, QueuesInv
  <1>2. q \in {"pipe", "old"}
    BY DEF Readable
  <1>3. /\ q = "pipe" => pipe[a][b] # <<>> /\ NextMessage(a, b, q) = Head(pipe[a][b])
        /\ q # "pipe" => old[a][b] # <<>> /\ NextMessage(a, b, q) = Head(old[a][b])
    BY DEF Readable, NextMessage
  <1>4. /\ q = "pipe" => pipe' = With(pipe, a, b, Tail(pipe[a][b])) /\ old' = old
        /\ q # "pipe" => old' = With(old, a, b, Tail(old[a][b])) /\ pipe' = pipe
    BY <1>2 DEF ReadFrom, OldReadFrom, With
  <1>5. /\ q = "pipe" => Tail(pipe[a][b]) \in Seq(Sent(a))
        /\ q # "pipe" => Tail(old[a][b]) \in Seq(Sent(a))
    BY <1>1, <1>3, HeadTailProperties
  <1>6. /\ pipe \in [Nodes -> [Nodes -> Queues]]
        /\ old \in [Nodes -> [Nodes -> Queues]]
    BY DEF ChannelInv, ConnectionTypeOK
  <1>7. /\ pipe' \in [Nodes -> [Nodes -> Queues]]
        /\ old' \in [Nodes -> [Nodes -> Queues]]
        /\ \A x, y \in Nodes :
              /\ pipe'[x][y] = IF x = a /\ y = b /\ q = "pipe" THEN Tail(pipe[a][b]) ELSE pipe[x][y]
              /\ old'[x][y] = IF x = a /\ y = b /\ q # "pipe" THEN Tail(old[a][b]) ELSE old[x][y]
    <2>1. CASE q = "pipe"
      <3>1. /\ pipe' \in [Nodes -> [Nodes -> Queues]]
            /\ \A x, y \in Nodes : pipe'[x][y] = IF x = a /\ y = b THEN Tail(pipe[a][b]) ELSE pipe[x][y]
        BY <1>3, <1>4, <1>6, <2>1, QueueRead
      <3>2. QED
        BY <1>4, <1>6, <2>1, <3>1
    <2>2. CASE q # "pipe"
      <3>1. /\ old' \in [Nodes -> [Nodes -> Queues]]
            /\ \A x, y \in Nodes : old'[x][y] = IF x = a /\ y = b THEN Tail(old[a][b]) ELSE old[x][y]
        BY <1>3, <1>4, <1>6, <2>2, QueueRead
      <3>2. QED
        BY <1>4, <1>6, <2>2, <3>1
    <2>3. QED
      BY <2>1, <2>2
  <1>8. ConnectionTypeOK'
    BY <1>7 DEF ChannelInv, ConnectionTypeOK
  <1>9. QueuesInv'
    <2>1. \A x, y \in Nodes : pipe'[x][y] \in Seq(Sent(x)) /\ old'[x][y] \in Seq(Sent(x))
      BY <1>5, <1>7, ZenonT(30) DEF ChannelInv, QueuesInv
    <2>2. QED
      BY <2>1, SetsGrow DEF ChannelInv, QueuesInv
  <1>10. StartsInv'
    <2> SUFFICES ASSUME NEW n \in Followers
                 PROVE  /\ Announced(started'[n], pipe'[leader][n])
                        /\ Announced(started'[n], old'[leader][n])
                        /\ \A c \in DOMAIN channels'[leader] : StartSent(n, c)'
      BY DEF StartsInv, live
    <2>0. n \in Nodes /\ leader \in Nodes
      BY ChannelsAssumption DEF Followers
    <2>1. started[n] \subseteq started'[n]
      BY <2>0 DEF Grows
    <2>2. Announced(started[n], old[leader][n]) /\ Announced(started[n], pipe[leader][n])
      BY DEF ChannelInv, StartsInv
    <2>3. Announced(started'[n], old[leader][n]) /\ Announced(started'[n], pipe[leader][n])
      BY <2>1, <2>2, AnnouncedGrows
    <2>4. /\ Announced(started'[n], pipe'[leader][n])
          /\ StartsIn(pipe[leader][n]) \subseteq started'[n] \cup StartsIn(pipe'[leader][n])
      <3>1. CASE pipe'[leader][n] = pipe[leader][n]
        BY <2>3, <3>1
      <3>2. CASE leader = a /\ n = b /\ q = "pipe"
        <4>1. pipe'[leader][n] = Tail(pipe[leader][n])
          BY <1>7, <2>0, <3>2
        <4>2. QED
          BY <1>1, <1>3, <2>1, <2>2, <3>2, <4>1, AnnouncedTail
      <3>3. QED
        BY <1>7, <2>0, <3>1, <3>2
    <2>5. Announced(started'[n], old'[leader][n])
      <3>1. CASE old'[leader][n] = old[leader][n]
        BY <2>3, <3>1
      <3>2. CASE leader = a /\ n = b /\ q # "pipe"
        <4>1. old'[leader][n] = Tail(old[leader][n])
          BY <1>7, <2>0, <3>2
        <4>2. QED
          BY <1>1, <1>3, <2>1, <2>2, <3>2, <4>1, AnnouncedTail
      <3>3. QED
        BY <1>7, <2>0, <3>1, <3>2
    <2>6. ASSUME NEW c \in DOMAIN channels'[leader] PROVE StartSent(n, c)'
      <3>1. StartSent(n, c)
        BY DEF ChannelInv, StartsInv
      <3>2. QED
        BY <2>1, <2>4, <3>1 DEF StartSent, versions, outgoing_connection_asserting
    <2>7. QED
      BY <2>4, <2>5, <2>6
  <1>11. QED
    BY <1>8, <1>9, <1>10

\* What waits after room was made for one more entry.
Room(n) == IF Evicted(n) = {} THEN waiting[n] ELSE Tail(waiting[n])

\* Only the oldest entry goes, when all places are taken.
LEMMA RoomIsMade ==
  ASSUME NEW n \in Nodes, NEW S, waiting[n] \in Seq(S), Distinct(waiting[n]),
         Len(waiting[n]) <= LRU_CAPACITY
  PROVE  /\ Room(n) \in Seq(S) /\ Distinct(Room(n)) /\ Len(Room(n)) <= LRU_CAPACITY
         /\ EntryIds(Room(n)) = WaitingFor(n) \ Evicted(n)
  <1>1. EntryIds(waiting[n]) = WaitingFor(n) /\ Len(waiting[n]) \in Nat
    BY LenProperties DEF EntryIds, WaitingFor
  <1>2. CASE Len(waiting[n]) = LRU_CAPACITY
    <2>1. waiting[n] # <<>> /\ Evicted(n) = {Head(waiting[n]).id} /\ Room(n) = Tail(waiting[n])
      BY <1>2, ChannelsAssumption, EmptySeq DEF Evicted, Room
    <2>2. /\ Tail(waiting[n]) \in Seq(S) /\ Distinct(Tail(waiting[n]))
          /\ Len(Tail(waiting[n])) = Len(waiting[n]) - 1
          /\ EntryIds(Tail(waiting[n])) = EntryIds(waiting[n]) \ {Head(waiting[n]).id}
      BY <2>1, TailOfEntries
    <2>3. QED
      BY <1>1, <1>2, <2>1, <2>2, ChannelsAssumption
  <1>3. CASE Len(waiting[n]) # LRU_CAPACITY
    BY <1>1, <1>3 DEF Evicted, Room
  <1>4. QED
    BY <1>2, <1>3

\* A new entry is pushed, and the oldest goes if it has to.
LEMMA EntryPushed ==
  ASSUME NEW n \in Nodes, NEW S, waiting[n] \in Seq(S), Distinct(waiting[n]),
         Len(waiting[n]) <= LRU_CAPACITY, NEW c, c \notin WaitingFor(n), NEW buffer,
         [id |-> c, buffer |-> buffer] \in S
  PROVE  /\ Pushed(n, c, buffer) \in Seq(S) /\ Distinct(Pushed(n, c, buffer))
         /\ Len(Pushed(n, c, buffer)) <= LRU_CAPACITY
         /\ EntryIds(Pushed(n, c, buffer)) = (WaitingFor(n) \ Evicted(n)) \cup {c}
  <1> DEFINE e == [id |-> c, buffer |-> buffer]
             w == Append(waiting[n], e)
  <1>1. EntryIds(waiting[n]) = WaitingFor(n) /\ Len(waiting[n]) \in Nat
    BY LenProperties DEF EntryIds, WaitingFor
  <1>2. e.id = c /\ e \in S
    OBVIOUS
  <1>3. Pushed(n, c, buffer) = IF Len(w) > LRU_CAPACITY THEN Tail(w) ELSE w
    BY DEF Pushed
  <1> HIDE DEF e
  <1>4. /\ w \in Seq(S) /\ Distinct(w) /\ Len(w) = Len(waiting[n]) + 1
        /\ EntryIds(w) = WaitingFor(n) \cup {c}
        /\ Head(w).id = IF waiting[n] = <<>> THEN c ELSE Head(waiting[n]).id
    BY <1>1, <1>2, AppendToEntries
  <1> HIDE DEF w
  <1>5. CASE Len(waiting[n]) = LRU_CAPACITY
    <2>1. /\ waiting[n] # <<>> /\ Evicted(n) = {Head(waiting[n]).id}
          /\ Len(w) > LRU_CAPACITY /\ w # <<>>
      BY <1>1, <1>4, <1>5, ChannelsAssumption, EmptySeq DEF Evicted
    <2>2. /\ Tail(w) \in Seq(S) /\ Distinct(Tail(w)) /\ Len(Tail(w)) = Len(w) - 1
          /\ EntryIds(Tail(w)) = EntryIds(w) \ {Head(w).id}
      BY <1>4, <2>1, TailOfEntries
    <2>3. Head(waiting[n]).id \in WaitingFor(n)
      <3>1. 1 \in DOMAIN waiting[n] /\ Head(waiting[n]) = waiting[n][1]
        BY <2>1, LenProperties, HeadTailProperties, EmptySeq
      <3>2. QED
        BY <3>1 DEF WaitingFor
    <2>4. Len(Tail(w)) <= LRU_CAPACITY
      BY <1>1, <1>4, <1>5, <2>2, ChannelsAssumption
    <2>5. EntryIds(Tail(w)) = (WaitingFor(n) \ Evicted(n)) \cup {c}
      BY <1>4, <2>1, <2>2, <2>3
    <2>6. QED
      BY <1>3, <2>1, <2>2, <2>4, <2>5
  <1>6. CASE Len(waiting[n]) # LRU_CAPACITY
    <2>1. Evicted(n) = {} /\ Len(w) <= LRU_CAPACITY
      BY <1>1, <1>4, <1>6, ChannelsAssumption DEF Evicted
    <2>2. ~ (Len(w) > LRU_CAPACITY)
      BY <1>1, <1>4, <2>1, ChannelsAssumption
    <2>3. QED
      BY <1>3, <1>4, <2>1, <2>2
  <1>7. QED
    BY <1>5, <1>6

\* A channel at its beginning.
LEMMA ChannelBegins ==
  ASSUME ChannelInv, NEW n \in Nodes, NEW inbox \in Seq(Heard)
  PROVE  /\ NewChannel(n, inbox) \in Channels
         /\ NewChannel(n, inbox).inbox = inbox /\ NewChannel(n, inbox).step = "init"
         /\ NewChannel(n, inbox).successful = {}
         /\ NewChannel(n, inbox).versions = [p \in Nodes |-> connection_version(n, p)]
  <1>1. \A p \in Nodes : connection_version(n, p) \in [outgoing : Nat, incoming : Nat]
    <2> SUFFICES ASSUME NEW p \in Nodes
                 PROVE  connection_version(n, p) \in [outgoing : Nat, incoming : Nat]
      OBVIOUS
    <2>1. outgoing[n][p] \in OutgoingEnds /\ incoming[n][p] \in IncomingEnds
      BY DEF ChannelInv, ConnectionTypeOK
    <2>2. version(outgoing[n][p]) \in Nat /\ version(incoming[n][p]) \in Nat
      BY <2>1 DEF OutgoingEnds, IncomingEnds, version
    <2>3. QED
      BY <2>2 DEF connection_version
  <1> DEFINE vs == [p \in Nodes |-> connection_version(n, p)]
  <1>2. vs \in [Nodes -> [outgoing : Nat, incoming : Nat]]
    BY <1>1
  <1>3. NewChannel(n, inbox) = [versions |-> vs, inbox |-> inbox, step |-> "init", got |-> {},
                                successful |-> {}]
    BY DEF NewChannel
  <1> HIDE DEF vs
  <1>4. /\ NewChannel(n, inbox) \in Channels
        /\ NewChannel(n, inbox).inbox = inbox /\ NewChannel(n, inbox).step = "init"
        /\ NewChannel(n, inbox).successful = {}
        /\ NewChannel(n, inbox).versions = vs
    BY <1>2, <1>3 DEF Channels
  <1>5. QED
    BY <1>4 DEF vs

\* The place of a waiting entry.
LEMMA EntryFound ==
  ASSUME NEW n \in Nodes, NEW c \in WaitingFor(n)
  PROVE  EntryOf(n, c) \in DOMAIN waiting[n] /\ waiting[n][EntryOf(n, c)].id = c
  <1>1. \E i \in DOMAIN waiting[n] : waiting[n][i].id = c
    BY DEF WaitingFor
  <1>2. QED
    BY <1>1 DEF EntryOf

\* A Start: the channel begins with what was kept for it.
LEMMA StartsKeeps ==
  ASSUME ChannelInv, NEW n \in Nodes, NEW c \in Nat, c <= last_id, c \notin live(n),
         starts(n, c), UNCHANGED <<last_id, shares>>
  PROVE  /\ Grows /\ c \in started'[n]
         /\ \A m \in Nodes : NodeOK(m)'
         /\ DOMAIN channels' = Nodes /\ DOMAIN waiting' = Nodes
         /\ senders' \in [Nodes -> SUBSET Nat]
         /\ \A m \in Nodes : m # n => channels'[m] = channels[m]
  <1> DEFINE inbox == IF c \in WaitingFor(n) THEN Buffered(n, c) ELSE <<>>
             w == IF c \in WaitingFor(n) THEN RemoveAt(waiting[n], EntryOf(n, c)) ELSE Room(n)
             s == IF c \in WaitingFor(n) THEN senders[n] ELSE (senders[n] \ Evicted(n)) \cup {c}
             ch == [d \in live(n) \cup {c} |->
                      IF d = c THEN NewChannel(n, inbox) ELSE channels[n][d]]
  <1>1. /\ started' = [started EXCEPT ![n] = @ \cup {c}]
        /\ channels' = [channels EXCEPT ![n] = ch]
        /\ waiting' = [waiting EXCEPT ![n] = w]
        /\ senders' = [senders EXCEPT ![n] = s]
    <2>0. DOMAIN senders = Nodes /\ senders = [x \in Nodes |-> senders[x]]
      BY DEF ChannelInv, TaskTypeOK
    <2>1. CASE c \in WaitingFor(n)
      BY <2>0, <2>1 DEF starts, WithChannel
    <2>2. CASE c \notin WaitingFor(n)
      BY <2>2 DEF starts, WithChannel, Room
    <2>3. QED
      BY <2>1, <2>2
  <1>2. Grows /\ c \in started'[n]
    BY <1>1 DEF ChannelInv, TaskTypeOK, Grows
  <1>3. NodeOK(n) /\ TaskTypeOK
    BY DEF ChannelInv
  <1>4. /\ waiting[n] \in Seq(Kept(n)') /\ Distinct(waiting[n])
        /\ senders[n] = WaitingFor(n) \cup live(n) /\ WaitingFor(n) \cap live(n) = {}
        /\ Len(waiting[n]) <= LRU_CAPACITY /\ Len(waiting[n]) \in Nat
        /\ WaitingFor(n) = EntryIds(waiting[n])
    BY <1>2, <1>3, SetsGrow, LenProperties DEF NodeOK, SenderOK, WaitingFor, EntryIds
  <1>5. inbox \in Seq(Arrived(c))
    <2>1. CASE c \in WaitingFor(n)
      <3>1. waiting[n][EntryOf(n, c)] \in Kept(n) /\ waiting[n][EntryOf(n, c)].id = c
        BY <1>3, <2>1, EntryFound, ElementOfSeq, LenProperties DEF NodeOK
      <3>2. QED
        BY <2>1, <3>1 DEF Buffered, Kept
    <2>2. CASE c \notin WaitingFor(n)
      BY <2>2, EmptySeq
    <2>3. QED
      BY <2>1, <2>2
  <1>6. inbox \in Seq(Heard) /\ inbox \in Seq(Arrived(c)')
    <2>1. Arrived(c) \subseteq Heard
      BY DEF Arrived
    <2>2. QED
      BY <1>2, <1>3, <1>5, <2>1, SeqMonotonic, SetsGrow
  <1>7. /\ w \in Seq(Kept(n)') /\ Distinct(w) /\ Len(w) <= LRU_CAPACITY
        /\ EntryIds(w) \cap (live(n) \cup {c}) = {}
        /\ s = EntryIds(w) \cup live(n) \cup {c}
    <2>1. CASE c \in WaitingFor(n)
      <3> DEFINE r == RemoveAt(waiting[n], EntryOf(n, c))
      <3>1. /\ r \in Seq(Kept(n)') /\ Distinct(r) /\ Len(r) = Len(waiting[n]) - 1
            /\ EntryIds(r) = WaitingFor(n) \ {c}
        <4> DEFINE k == EntryOf(n, c)
                   v == waiting[n]
        <4>1. k \in DOMAIN v /\ v[k].id = c
          BY <2>1, EntryFound
        <4>2. v \in Seq(Kept(n)') /\ Distinct(v) /\ EntryIds(v) = WaitingFor(n)
          BY <1>4
        <4> HIDE DEF k, v
        <4>3. /\ RemoveAt(v, k) \in Seq(Kept(n)') /\ Distinct(RemoveAt(v, k))
              /\ Len(RemoveAt(v, k)) = Len(v) - 1
              /\ EntryIds(RemoveAt(v, k)) = EntryIds(v) \ {v[k].id}
          BY <4>1, <4>2, RemoveOfEntries
        <4>4. QED
          BY <4>1, <4>2, <4>3 DEF k, v
      <3>2. w = r /\ s = senders[n]
        BY <2>1
      <3> HIDE DEF w, r, s
      <3>3. Len(r) <= LRU_CAPACITY
        BY <1>4, <3>1, ChannelsAssumption
      <3>4. QED
        BY <1>4, <2>1, <3>1, <3>2, <3>3
    <2>2. CASE c \notin WaitingFor(n)
      <3>1. /\ Room(n) \in Seq(Kept(n)') /\ Distinct(Room(n)) /\ Len(Room(n)) <= LRU_CAPACITY
            /\ EntryIds(Room(n)) = WaitingFor(n) \ Evicted(n)
        BY <1>4, RoomIsMade
      <3>2. w = Room(n) /\ s = (senders[n] \ Evicted(n)) \cup {c}
        BY <2>2
      <3> HIDE DEF w, s
      <3>3. Evicted(n) \cap live(n) = {}
        <4>1. CASE Len(waiting[n]) = LRU_CAPACITY
          <5>1. waiting[n] # <<>> /\ Evicted(n) = {Head(waiting[n]).id}
            BY <4>1, ChannelsAssumption, EmptySeq DEF Evicted
          <5>2. 1 \in DOMAIN waiting[n] /\ Head(waiting[n]) = waiting[n][1]
            BY <1>4, <5>1, LenProperties, HeadTailProperties, EmptySeq
          <5>3. Head(waiting[n]).id \in WaitingFor(n)
            BY <5>2 DEF WaitingFor
          <5>4. QED
            BY <1>4, <5>1, <5>3
        <4>2. QED
          BY <4>1 DEF Evicted
      <3>4. QED
        BY <1>4, <2>2, <3>1, <3>2, <3>3
    <2>3. QED
      BY <2>1, <2>2
  <1> HIDE DEF inbox, w, s
  <1>8. /\ NewChannel(n, inbox) \in Channels
        /\ NewChannel(n, inbox).inbox = inbox /\ NewChannel(n, inbox).step = "init"
        /\ NewChannel(n, inbox).successful = {}
    BY <1>6, ChannelBegins
  <1>9. /\ DOMAIN ch = live(n) \cup {c} /\ ch[c] = NewChannel(n, inbox)
        /\ \A d \in live(n) : d # c => ch[d] = channels[n][d]
        /\ ch = [d \in live(n) \cup {c} |-> ch[d]]
    OBVIOUS
  <1> HIDE DEF ch
  <1>10. /\ channels'[n] = ch /\ waiting'[n] = w /\ senders'[n] = s
         /\ DOMAIN channels' = Nodes /\ DOMAIN waiting' = Nodes
         /\ \A m \in Nodes : m # n =>
               channels'[m] = channels[m] /\ waiting'[m] = waiting[m] /\ senders'[m] = senders[m]
    BY <1>1, <1>3 DEF TaskTypeOK
  <1>11. senders' \in [Nodes -> SUBSET Nat]
    <2>1. s \in SUBSET Nat
      <3>1. EntryIds(w) \subseteq Nat
        <4>1. \A i \in DOMAIN w : w[i] \in Kept(n)'
          BY <1>7, ElementOfSeq, LenProperties
        <4>2. QED
          BY <4>1 DEF EntryIds, Kept
      <3>2. live(n) \subseteq Nat
        BY <1>3 DEF NodeOK, ChannelOK
      <3>3. QED
        BY <1>7, <3>1, <3>2
    <2>2. QED
      BY <1>1, <1>3, <2>1 DEF TaskTypeOK
  <1>12. \A d \in live(n) \cup {c} : ChannelOK(n, d)'
    <2>1. ASSUME NEW d \in live(n), d # c PROVE ChannelOK(n, d)'
      BY <1>2, <1>3, <1>9, <1>10, <2>1, ChannelStays DEF NodeOK
    <2>2. ChannelOK(n, c)'
      <3>1. channels'[n][c] = NewChannel(n, inbox)
        BY <1>9, <1>10
      <3>2. QED
        BY <1>2, <1>6, <1>8, <3>1 DEF ChannelOK
    <2>3. QED
      BY <2>1, <2>2
  <1>13. NodeOK(n)'
    <2>1. WaitingFor(n)' = EntryIds(w) /\ live(n)' = live(n) \cup {c}
      BY <1>9, <1>10 DEF WaitingFor, EntryIds, live
    <2>2. SenderOK(n)'
      BY <1>7, <1>10, <2>1 DEF SenderOK
    <2>3. channels'[n] = [d \in live(n)' |-> channels'[n][d]]
      BY <1>9, <1>10, <2>1
    <2>4. QED
      BY <1>7, <1>10, <1>12, <2>1, <2>2, <2>3 DEF NodeOK
  <1>14. \A m \in Nodes : m # n => NodeOK(m)'
    BY <1>2, <1>10, NodeStays DEF ChannelInv
  <1>15. QED
    BY <1>2, <1>10, <1>11, <1>13, <1>14

\* What was kept of a channel, with one more message.
More(e, h) == [e EXCEPT !.buffer = Append(e.buffer, h)]

\* A message that comes before the start, or after the end, is kept.  If it is
\* of the leader, then the channel has begun.
LEMMA KeepKeeps ==
  ASSUME ChannelInv, NEW n \in Nodes, NEW c \in Nat, c <= last_id, c \notin live(n),
         NEW h \in Arrived(c), n # leader /\ h.from = leader => c \in started[n],
         keep(n, c, h), UNCHANGED <<last_id, shares, channels, started>>
  PROVE  /\ \A m \in Nodes : NodeOK(m)'
         /\ DOMAIN waiting' = Nodes /\ senders' \in [Nodes -> SUBSET Nat]
  <1> DEFINE v == waiting[n]
             k == EntryOf(n, c)
             w == IF c \in WaitingFor(n) THEN [v EXCEPT ![k] = More(v[k], h)] ELSE Pushed(n, c, <<h>>)
             s == IF c \in WaitingFor(n) THEN senders[n] ELSE (senders[n] \ Evicted(n)) \cup {c}
  <1>1. /\ waiting' = [waiting EXCEPT ![n] = w]
        /\ senders' = [senders EXCEPT ![n] = s]
    <2>0. DOMAIN senders = Nodes /\ senders = [x \in Nodes |-> senders[x]]
      BY DEF ChannelInv, TaskTypeOK
    <2>1. CASE c \in WaitingFor(n)
      BY <2>0, <2>1 DEF keep, More
    <2>2. CASE c \notin WaitingFor(n)
      BY <2>2 DEF keep
    <2>3. QED
      BY <2>1, <2>2
  <1>2. Grows
    BY SameGrows DEF ChannelInv
  <1>3. NodeOK(n) /\ TaskTypeOK
    BY DEF ChannelInv
  <1>4. /\ v \in Seq(Kept(n)) /\ Distinct(v)
        /\ senders[n] = WaitingFor(n) \cup live(n) /\ WaitingFor(n) \cap live(n) = {}
        /\ Len(v) <= LRU_CAPACITY /\ Len(v) \in Nat /\ DOMAIN v = 1 .. Len(v)
        /\ \A i \in 1 .. Len(v) : v[i] \in Kept(n)
        /\ WaitingFor(n) = EntryIds(v)
    BY <1>3, LenProperties, ElementOfSeq DEF NodeOK, SenderOK, WaitingFor, EntryIds
  <1>5. <<h>> \in Seq(Arrived(c)) /\ h \in Heard /\ <<h>> \in Seq(Heard)
    BY OneMessage DEF Arrived
  <1>6. /\ w \in Seq(Kept(n)) /\ Distinct(w) /\ Len(w) <= LRU_CAPACITY
        /\ EntryIds(w) \cap live(n) = {}
        /\ s = EntryIds(w) \cup live(n)
    <2>1. CASE c \in WaitingFor(n)
      <3> DEFINE r == [v EXCEPT ![k] = More(v[k], h)]
      <3>1. ASSUME NEW e \in Kept(n), e.id = c
            PROVE  More(e, h) \in Kept(n) /\ More(e, h).id = c
        <4> DEFINE b == Append(e.buffer, h)
        <4>1. /\ e.buffer \in Seq(Heard) /\ e.buffer \in Seq(Arrived(c)) /\ e \in [id : Nat, buffer : Seq(Heard)]
          BY <3>1 DEF Kept
        <4>2. b \in Seq(Heard) /\ b \in Seq(Arrived(c))
          BY <1>5, <4>1, AppendProperties
        <4>3. \A j \in DOMAIN b : (j \in DOMAIN e.buffer /\ b[j] = e.buffer[j]) \/ b[j] = h
          BY <1>5, <4>1, AppendProperties, LenProperties
        <4>4. n # leader /\ (\E j \in DOMAIN b : b[j].from = leader) => c \in started[n]
          BY <3>1, <4>3 DEF Kept
        <4>5. More(e, h) = [e EXCEPT !.buffer = b]
          BY DEF More
        <4> HIDE DEF b
        <4>6. More(e, h).id = c /\ More(e, h).buffer = b /\ More(e, h) \in [id : Nat, buffer : Seq(Heard)]
          BY <3>1, <4>1, <4>2, <4>5
        <4>7. QED
          BY <4>2, <4>4, <4>6 DEF Kept
      <3>2. \A i \in 1 .. Len(v) : r[i] \in Kept(n) /\ r[i].id = v[i].id
        <4>1. k \in 1 .. Len(v) /\ v[k].id = c
          BY <1>4, <2>1, EntryFound
        <4>2. More(v[k], h) \in Kept(n) /\ More(v[k], h).id = c
          BY <1>4, <3>1, <4>1
        <4> HIDE DEF k, v
        <4>3. QED
          BY <1>4, <4>1, <4>2
      <3>3. DOMAIN r = 1 .. Len(v) /\ r = [i \in 1 .. Len(v) |-> r[i]]
        BY <1>4
      <3>4. w = r /\ s = senders[n]
        BY <2>1
      <3> HIDE DEF r, w, s, v
      <3>5. r \in Seq(Kept(n)) /\ Len(r) = Len(v)
        <4>1. r \in [1 .. Len(v) -> Kept(n)]
          BY <3>2, <3>3
        <4>2. QED
          BY <1>4, <4>1
      <3>6. Distinct(r) /\ EntryIds(r) = EntryIds(v)
        BY <1>4, <3>2, <3>3 DEF Distinct, EntryIds
      <3>7. QED
        BY <1>4, <3>4, <3>5, <3>6
    <2>2. CASE c \notin WaitingFor(n)
      <3>1. [id |-> c, buffer |-> <<h>>] \in Kept(n)
        <4>1. DOMAIN <<h>> = {1} /\ <<h>>[1] = h
          OBVIOUS
        <4>2. QED
          BY <1>5, <4>1 DEF Kept
      <3>2. /\ Pushed(n, c, <<h>>) \in Seq(Kept(n)) /\ Distinct(Pushed(n, c, <<h>>))
            /\ Len(Pushed(n, c, <<h>>)) <= LRU_CAPACITY
            /\ EntryIds(Pushed(n, c, <<h>>)) = (WaitingFor(n) \ Evicted(n)) \cup {c}
        BY <1>4, <2>2, <3>1, EntryPushed
      <3>3. w = Pushed(n, c, <<h>>) /\ s = (senders[n] \ Evicted(n)) \cup {c}
        BY <2>2
      <3>4. Evicted(n) \cap live(n) = {}
        <4>1. CASE Len(waiting[n]) = LRU_CAPACITY
          <5>1. v # <<>> /\ Evicted(n) = {Head(v).id}
            BY <4>1, ChannelsAssumption, EmptySeq DEF Evicted
          <5>2. 1 \in DOMAIN v /\ Head(v) = v[1]
            BY <1>4, <5>1, LenProperties, HeadTailProperties, EmptySeq
          <5>3. Head(v).id \in WaitingFor(n)
            BY <5>2 DEF WaitingFor
          <5>4. QED
            BY <1>4, <5>1, <5>3
        <4>2. QED
          BY <4>1 DEF Evicted
      <3> HIDE DEF w, s, v
      <3>5. QED
        BY <1>4, <3>2, <3>3, <3>4
    <2>3. QED
      BY <2>1, <2>2
  <1> HIDE DEF w, s
  <1>7. /\ channels'[n] = channels[n] /\ waiting'[n] = w /\ senders'[n] = s
        /\ DOMAIN waiting' = Nodes
        /\ \A m \in Nodes : m # n =>
              channels'[m] = channels[m] /\ waiting'[m] = waiting[m] /\ senders'[m] = senders[m]
    BY <1>1, <1>3 DEF TaskTypeOK
  <1>8. senders' \in [Nodes -> SUBSET Nat]
    <2>1. s \in SUBSET Nat
      <3>1. EntryIds(w) \subseteq Nat
        <4>1. \A i \in DOMAIN w : w[i] \in Kept(n)
          BY <1>6, ElementOfSeq, LenProperties
        <4>2. QED
          BY <4>1 DEF EntryIds, Kept
      <3>2. live(n) \subseteq Nat
        BY <1>3 DEF NodeOK, ChannelOK
      <3>3. QED
        BY <1>6, <3>1, <3>2
    <2>2. QED
      BY <1>1, <1>3, <2>1 DEF TaskTypeOK
  <1>9. NodeOK(n)'
    <2>1. WaitingFor(n)' = EntryIds(w) /\ live(n)' = live(n)
      BY <1>7 DEF WaitingFor, EntryIds, live
    <2>2. SenderOK(n)'
      BY <1>6, <1>7, <2>1 DEF SenderOK
    <2>3. \A d \in live(n) : ChannelOK(n, d)'
      BY <1>2, <1>3, <1>7, ChannelStays DEF NodeOK
    <2>4. w \in Seq(Kept(n)')
      BY <1>2, <1>3, <1>6, SetsGrow
    <2>5. channels'[n] = [d \in live(n)' |-> channels'[n][d]]
      BY <1>3, <1>7, <2>1 DEF NodeOK
    <2>6. QED
      BY <1>6, <1>7, <2>1, <2>2, <2>3, <2>4, <2>5 DEF NodeOK
  <1>10. \A m \in Nodes : m # n => NodeOK(m)'
    BY <1>2, <1>7, NodeStays DEF ChannelInv
  <1>11. QED
    BY <1>7, <1>8, <1>9, <1>10

\* A message of a live channel waits to be read by its task.
LEMMA DeliverKeeps ==
  ASSUME ChannelInv, NEW n \in Nodes, NEW c \in live(n), NEW h \in Arrived(c),
         channels' = [channels EXCEPT ![n][c].inbox = Append(@, h)],
         UNCHANGED <<last_id, shares, started, senders, waiting>>
  PROVE  /\ \A m \in Nodes : NodeOK(m)'
         /\ DOMAIN channels' = Nodes
         /\ \A d \in DOMAIN channels'[leader] :
               d \in live(leader) /\ channels'[leader][d].versions = channels[leader][d].versions
  <1> DEFINE ch == channels[n][c]
             box == Append(ch.inbox, h)
             new == [ch EXCEPT !.inbox = box]
  <1>1. channels' = Updated(n, c, new)
    BY DEF Updated
  <1>2. Grows
    BY SameGrows DEF ChannelInv
  <1>3. ChannelOK(n, c) /\ ch \in Channels /\ h \in Heard
    BY DEF ChannelInv, NodeOK, ChannelOK, Arrived
  <1>4. ch.inbox \in Seq(Heard) /\ ch.inbox \in Seq(Arrived(c))
    BY <1>3 DEF ChannelOK, Channels
  <1>5. box \in Seq(Heard) /\ box \in Seq(Arrived(c))
    BY <1>3, <1>4, AppendProperties
  <1>6. box \in Seq(Arrived(c)')
    BY <1>2, <1>5, SetsGrow DEF ChannelInv
  <1> HIDE DEF box
  <1>7. /\ new \in Channels /\ new.inbox = box /\ new.step = ch.step
        /\ new.successful = ch.successful /\ new.versions = ch.versions
    BY <1>3, <1>5 DEF Channels
  <1>8. /\ \A p \in new.successful : c \in shares'[p]
        /\ new.step = "done" => n # leader /\ c \in shares'[n]
    BY <1>3, <1>7 DEF ChannelOK
  <1> HIDE DEF new
  <1>9. /\ \A x \in Nodes : NodeOK(x)'
        /\ DOMAIN channels' = Nodes
        /\ \A x \in Nodes : DOMAIN channels'[x] = DOMAIN channels[x]
        /\ \A x \in Nodes : \A d \in live(x) : x # n \/ d # c => channels'[x][d] = channels[x][d]
        /\ channels'[n][c] = new
    <2>1. TaskTypeOK /\ \A x \in Nodes : NodeOK(x)
      BY DEF ChannelInv
    <2>2. UNCHANGED <<waiting, senders>> /\ new.inbox \in Seq(Arrived(c)')
      BY <1>6, <1>7
    <2>3. QED
      BY <1>1, <1>2, <1>7, <1>8, <2>1, <2>2, ChannelUpdated
  <1>10. QED
    BY <1>7, <1>9, ChannelsAssumption DEF live

\* The reader of a connection hands on the next message.
LEMMA ReceiveKeeps ==
  ASSUME ChannelInv, NEW a \in Nodes, NEW b \in Nodes, a # b, NEW q, run_receive_message(a, b, q)
  PROVE  ChannelInv'
  <1> DEFINE m == NextMessage(a, b, q)
             h == [from |-> a, kind |-> m.kind]
  <1>1. /\ q \in Readable(a, b) /\ pipe' = ReadFrom(pipe, a, b, q) /\ old' = OldReadFrom(a, b, q)
        /\ UNCHANGED <<outgoing, incoming, connection_attempt, read, last_id, shares, owned>>
    BY DEF run_receive_message
  <1>2. /\ m \in Sent(a)
        /\ a = leader /\ b \in Followers /\ m.kind # "Start" => m.id \in started[b]
    BY <1>1, MessageRead
  <1>3. \/ /\ m.id \in live(b)
           /\ channels' = [channels EXCEPT ![b][m.id].inbox = Append(@, h)]
           /\ UNCHANGED <<senders, waiting, started>>
        \/ /\ m.id \notin live(b) /\ m.kind = "Start" /\ starts(b, m.id)
        \/ /\ m.id \notin live(b) /\ m.kind # "Start" /\ keep(b, m.id, h)
           /\ UNCHANGED <<channels, started>>
    BY DEF run_receive_message
  <1> HIDE DEF m
  <1>4. /\ m.id \in Nat /\ m.id <= last_id /\ m.kind \in Kinds
        /\ m.kind = "Success" => m.id \in shares[a]
        /\ m.kind = "Start" => a = leader
    BY <1>2 DEF Sent, Messages
  <1>5. h \in Arrived(m.id) /\ h.from = a
    BY <1>4 DEF Arrived, Heard
  <1> HIDE DEF h
  <1>6. leader \in Nodes
    BY ChannelsAssumption
  <1>7. /\ Grows /\ \A x \in Nodes : NodeOK(x)'
        /\ DOMAIN channels' = Nodes /\ DOMAIN waiting' = Nodes /\ senders' \in [Nodes -> SUBSET Nat]
        /\ m.kind = "Start" => m.id \in started'[b]
        /\ \A d \in DOMAIN channels'[leader] :
              d \in live(leader) /\ channels'[leader][d].versions = channels[leader][d].versions
    <2>1. CASE /\ m.id \in live(b)
               /\ channels' = [channels EXCEPT ![b][m.id].inbox = Append(@, h)]
               /\ UNCHANGED <<senders, waiting, started>>
      <3>1. UNCHANGED <<last_id, shares, started, senders, waiting>>
        BY <1>1, <2>1
      <3>2. /\ \A x \in Nodes : NodeOK(x)'
            /\ DOMAIN channels' = Nodes
            /\ \A d \in DOMAIN channels'[leader] :
                  d \in live(leader) /\ channels'[leader][d].versions = channels[leader][d].versions
        BY <1>5, <2>1, <3>1, DeliverKeeps
      <3>3. m.id \in started[b]
        BY <2>1 DEF ChannelInv, NodeOK, ChannelOK
      <3>4. Grows
        BY <3>1, SameGrows DEF ChannelInv
      <3>5. DOMAIN waiting' = Nodes /\ senders' \in [Nodes -> SUBSET Nat]
        BY <3>1 DEF ChannelInv, TaskTypeOK
      <3>6. QED
        BY <3>1, <3>2, <3>3, <3>4, <3>5
    <2>2. CASE m.id \notin live(b) /\ m.kind = "Start" /\ starts(b, m.id)
      <3>1. UNCHANGED <<last_id, shares>> /\ b # leader
        BY <1>1, <1>4, <2>2
      <3>2. /\ Grows /\ m.id \in started'[b]
            /\ \A x \in Nodes : NodeOK(x)'
            /\ DOMAIN channels' = Nodes /\ DOMAIN waiting' = Nodes
            /\ senders' \in [Nodes -> SUBSET Nat]
            /\ \A x \in Nodes : x # b => channels'[x] = channels[x]
        BY <1>4, <2>2, <3>1, StartsKeeps
      <3>3. QED
        BY <1>6, <3>1, <3>2 DEF live
    <2>3. CASE /\ m.id \notin live(b) /\ m.kind # "Start" /\ keep(b, m.id, h)
               /\ UNCHANGED <<channels, started>>
      <3>1. UNCHANGED <<last_id, shares, channels, started>>
        BY <1>1, <2>3
      <3>2. b # leader /\ h.from = leader => m.id \in started[b]
        BY <1>2, <1>5, <2>3 DEF Followers
      <3>3. /\ \A x \in Nodes : NodeOK(x)'
            /\ DOMAIN waiting' = Nodes /\ senders' \in [Nodes -> SUBSET Nat]
        BY <1>4, <1>5, <2>3, <3>1, <3>2, KeepKeeps
      <3>4. Grows
        BY <3>1, SameGrows DEF ChannelInv
      <3>5. DOMAIN channels' = Nodes
        BY <3>1 DEF ChannelInv, TaskTypeOK
      <3>6. QED
        BY <2>3, <3>1, <3>3, <3>4, <3>5 DEF live
    <2>4. QED
      BY <1>3, <2>1, <2>2, <2>3
  <1>8. ConnectionTypeOK' /\ QueuesInv' /\ StartsInv'
    BY <1>1, <1>7, ReadKeeps DEF m
  <1>9. TaskTypeOK' /\ OwnedHeldByAll'
    BY <1>1, <1>7 DEF ChannelInv, TaskTypeOK, OwnedHeldByAll, Grows
  <1>10. QED
    BY <1>7, <1>8, <1>9 DEF ChannelInv

\* The messages with which a channel begins: a Start, and data behind it.
LEMMA OpeningMessages ==
  ASSUME NEW c \in Nat, NEW S, Message(c, "Start") \in S, Message(c, "Data") \in S, NEW B
  PROVE  /\ <<Message(c, "Start")>> \in Seq(S)
         /\ <<Message(c, "Start"), Message(c, "Data")>> \in Seq(S)
         /\ Announced(B, <<Message(c, "Start")>>)
         /\ Announced(B, <<Message(c, "Start"), Message(c, "Data")>>)
         /\ c \in StartsIn(<<Message(c, "Start")>>)
         /\ c \in StartsIn(<<Message(c, "Start"), Message(c, "Data")>>)
  <1> DEFINE x == Message(c, "Start")
             y == Message(c, "Data")
  <1>1. x.id = c /\ x.kind = "Start" /\ y.id = c
    BY DEF Message
  <1> HIDE DEF x, y
  <1>2. DOMAIN <<x>> = {1} /\ <<x>>[1] = x
    OBVIOUS
  <1>3. DOMAIN <<x, y>> = {1, 2} /\ <<x, y>>[1] = x /\ <<x, y>>[2] = y
    OBVIOUS
  <1>4. <<x>> \in Seq(S) /\ <<x, y>> \in Seq(S)
    BY DEF x, y
  <1>5. Announced(B, <<x>>) /\ c \in StartsIn(<<x>>)
    BY <1>1, <1>2 DEF Announced, StartsIn
  <1>6. Announced(B, <<x, y>>)
    <2>1. 1 \in 1 .. 2 - 1
      OBVIOUS
    <2>2. QED
      BY <1>1, <1>3, <2>1 DEF Announced
  <1>7. c \in StartsIn(<<x, y>>)
    BY <1>1, <1>3 DEF StartsIn
  <1>8. QED
    BY <1>4, <1>5, <1>6, <1>7 DEF x, y

\* The leader opens a channel: its Start goes out on the connections of which
\* the channel takes the versions.
LEMMA NewChannelKeeps ==
  ASSUME ChannelInv, new_channel_for_task
  PROVE  ChannelInv'
  <1>c. PICK c \in Nat : c = last_id + 1
    BY DEF ChannelInv, TaskTypeOK
  <1> DEFINE vs == [p \in Nodes |-> connection_version(leader, p)]
             msgs == [p \in Nodes |-> IF p \in TalksTo(leader)
                                      THEN <<Message(c, "Start"), Message(c, "Data")>>
                                      ELSE <<Message(c, "Start")>>]
             new == [NewChannel(leader, <<>>) EXCEPT !.step = "compute"]
             s == (senders[leader] \ Evicted(leader)) \cup {c}
  <1>0. leader \in Nodes /\ TaskTypeOK /\ NodeOK(leader)
    BY ChannelsAssumption DEF ChannelInv, TaskTypeOK
  <1>1. /\ live(leader) = {}
        /\ \A p \in Followers : outgoing[leader][p].up
        /\ last_id' = c
        /\ SendTo(leader, Followers, vs, msgs)
        /\ started' = [started EXCEPT ![leader] = @ \cup {c}]
        /\ channels' = [channels EXCEPT ![leader] = [d \in {c} |-> new]]
        /\ waiting' = [waiting EXCEPT ![leader] = Room(leader)]
        /\ senders' = [senders EXCEPT ![leader] = s]
        /\ UNCHANGED <<outgoing, incoming, connection_attempt, read, old, shares, owned>>
    BY <1>c DEF new_channel_for_task, UnchangedBySend, Room, is_bidirectionally_connected
  <1>2. Grows /\ c \in started'[leader]
    BY <1>c, <1>0, <1>1 DEF TaskTypeOK, Grows
  <1>3. /\ waiting[leader] \in Seq(Kept(leader)') /\ Distinct(waiting[leader])
        /\ senders[leader] = WaitingFor(leader)
        /\ Len(waiting[leader]) <= LRU_CAPACITY
        /\ \A i \in DOMAIN waiting[leader] : waiting[leader][i] \in Kept(leader)
    <2>1. /\ waiting[leader] \in Seq(Kept(leader)) /\ Distinct(waiting[leader])
          /\ senders[leader] = WaitingFor(leader) \cup live(leader)
          /\ Len(waiting[leader]) <= LRU_CAPACITY
      BY <1>0 DEF NodeOK, SenderOK
    <2>2. waiting[leader] \in Seq(Kept(leader)')
      BY <1>0, <1>2, <2>1, SetsGrow
    <2>3. \A i \in DOMAIN waiting[leader] : waiting[leader][i] \in Kept(leader)
      BY <2>1, LenProperties, ElementOfSeq
    <2>4. QED
      BY <1>1, <2>1, <2>2, <2>3
  <1>4. WaitingFor(leader) \subseteq Nat /\ c \notin WaitingFor(leader)
    <2>1. \A i \in DOMAIN waiting[leader] :
             waiting[leader][i].id \in Nat /\ waiting[leader][i].id <= last_id
      BY <1>3 DEF Kept
    <2>2. last_id \in Nat
      BY <1>0 DEF TaskTypeOK
    <2>3. QED
      BY <1>c, <2>1, <2>2 DEF WaitingFor
  <1>5. /\ Room(leader) \in Seq(Kept(leader)') /\ Distinct(Room(leader))
        /\ Len(Room(leader)) <= LRU_CAPACITY
        /\ EntryIds(Room(leader)) = WaitingFor(leader) \ Evicted(leader)
    BY <1>0, <1>3, RoomIsMade
  <1>6. /\ new \in Channels /\ new.inbox = <<>> /\ new.step = "compute"
        /\ new.successful = {} /\ new.versions = vs
    <2> DEFINE ch == NewChannel(leader, <<>>)
    <2>1. /\ ch \in Channels /\ ch.inbox = <<>> /\ ch.successful = {} /\ ch.versions = vs
      <3>1. <<>> \in Seq(Heard)
        BY EmptySeq
      <3>2. QED
        BY <1>0, <3>1, ChannelBegins
    <2> HIDE DEF ch, vs
    <2>2. [ch EXCEPT !.step = "compute"] \in Channels
      BY <2>1 DEF Channels
    <2>3. QED
      BY <2>1, <2>2 DEF ch, Channels
  <1> HIDE DEF new
  <1>7. \A b \in Nodes : msgs[b] \in Seq(Sent(leader)')
                         /\ (\A B : Announced(B, msgs[b])) /\ c \in StartsIn(msgs[b])
    <2>1. Message(c, "Start") \in Sent(leader)' /\ Message(c, "Data") \in Sent(leader)'
      BY <1>0, <1>1 DEF Message, Sent, Messages, Kinds
    <2> DEFINE one == <<Message(c, "Start")>>
               two == <<Message(c, "Start"), Message(c, "Data")>>
    <2>2. /\ one \in Seq(Sent(leader)') /\ two \in Seq(Sent(leader)')
          /\ c \in StartsIn(one) /\ c \in StartsIn(two)
          /\ \A B : Announced(B, one) /\ Announced(B, two)
      BY <1>0, <2>1, OpeningMessages
    <2>3. \A b \in Nodes : msgs[b] = one \/ msgs[b] = two
      OBVIOUS
    <2> HIDE DEF one, two, msgs
    <2>4. QED
      BY <2>2, <2>3
  <1>8. /\ pipe' \in [Nodes -> [Nodes -> Queues]] /\ QueuesInv'
        /\ \A y \in Nodes : pipe'[leader][y] =
               IF y \in Followers /\ outgoing_connection_asserting(leader, y, vs[y]) /\ read[leader][y]
               THEN pipe[leader][y] \o msgs[y] ELSE pipe[leader][y]
    <2> HIDE DEF msgs, vs
    <2>1. ConnectionTypeOK /\ QueuesInv /\ UNCHANGED old
      BY <1>1 DEF ChannelInv
    <2>2. SendTo(leader, Followers, vs, msgs) /\ \A b \in Nodes : msgs[b] \in Seq(Sent(leader)')
      BY <1>1, <1>7
    <2>3. QED
      BY <1>0, <1>2, <2>1, <2>2, MessagesSent
  <1>9. \A p \in Followers : vs[p].outgoing = outgoing[leader][p].version
    BY <1>1 DEF connection_version, version, Followers
  <1> HIDE DEF msgs, vs, s
  <1>10. /\ channels'[leader] = [d \in {c} |-> new] /\ waiting'[leader] = Room(leader)
         /\ senders'[leader] = s
         /\ DOMAIN channels' = Nodes /\ DOMAIN waiting' = Nodes
         /\ \A x \in Nodes : x # leader =>
               channels'[x] = channels[x] /\ waiting'[x] = waiting[x] /\ senders'[x] = senders[x]
    BY <1>0, <1>1 DEF TaskTypeOK
  <1>11. /\ DOMAIN channels'[leader] = {c} /\ channels'[leader][c] = new
         /\ channels'[leader] = [d \in {c} |-> channels'[leader][d]]
    BY <1>10
  <1>12. senders' \in [Nodes -> SUBSET Nat] /\ s = EntryIds(Room(leader)) \cup {c}
         /\ EntryIds(Room(leader)) \cap {c} = {}
    <2>1. s = EntryIds(Room(leader)) \cup {c} /\ EntryIds(Room(leader)) \cap {c} = {} /\ s \in SUBSET Nat
      BY <1>0, <1>3, <1>4, <1>5 DEF s
    <2>2. QED
      BY <1>0, <1>1, <2>1 DEF TaskTypeOK
  <1>13. NodeOK(leader)'
    <2>1. WaitingFor(leader)' = EntryIds(Room(leader)) /\ live(leader)' = {c}
      BY <1>10, <1>11 DEF WaitingFor, EntryIds, live
    <2>2. SenderOK(leader)'
      BY <1>5, <1>10, <1>12, <2>1 DEF SenderOK
    <2>3. ChannelOK(leader, c)'
      <3>1. c <= last_id'
        BY <1>0, <1>1
      <3>2. <<>> \in Seq(Arrived(c)')
        BY EmptySeq
      <3>3. QED
        BY <1>0, <1>2, <1>6, <1>11, <3>1, <3>2 DEF ChannelOK
    <2>4. QED
      BY <1>5, <1>10, <1>11, <2>1, <2>2, <2>3 DEF NodeOK
  <1>14. \A x \in Nodes : x # leader => NodeOK(x)'
    BY <1>2, <1>10, NodeStays DEF ChannelInv
  <1>15. StartsInv'
    <2> SUFFICES ASSUME NEW n \in Followers
                 PROVE  /\ Announced(started'[n], pipe'[leader][n])
                        /\ Announced(started'[n], old'[leader][n])
                        /\ \A d \in {c} : StartSent(n, d)'
      BY <1>11 DEF StartsInv, live
    <2>0. n \in Nodes
      BY DEF Followers
    <2>1. started[n] \subseteq started'[n]
      BY <1>2, <2>0 DEF Grows
    <2>2. Announced(started'[n], old'[leader][n]) /\ Announced(started'[n], pipe[leader][n])
      BY <1>1, <2>1, AnnouncedGrows DEF ChannelInv, StartsInv
    <2>3. pipe[leader][n] \in Seq(Sent(leader)') /\ msgs[n] \in Seq(Sent(leader)')
      BY <1>0, <1>2, <1>7, <2>0, SetsGrow DEF ChannelInv, QueuesInv
    <2>4. Announced(started'[n] \cup StartsIn(pipe[leader][n]), msgs[n])
      BY <1>7, <2>0
    <2>5. /\ Announced(started'[n], pipe[leader][n] \o msgs[n])
          /\ StartsIn(msgs[n]) \subseteq StartsIn(pipe[leader][n] \o msgs[n])
      BY <2>2, <2>3, <2>4, AnnouncedConcat
    <2>6. Announced(started'[n], pipe'[leader][n])
      BY <1>8, <2>0, <2>2, <2>5
    <2>7. StartSent(n, c)'
      <3>1. versions(leader, c)' = vs
        BY <1>6, <1>11 DEF versions
      <3>2. vs[n].outgoing <= outgoing[leader][n].version
        <4>1. outgoing[leader][n].version \in Nat
          BY <1>0, <2>0 DEF ChannelInv, ConnectionTypeOK, OutgoingEnds
        <4>2. QED
          BY <1>9, <4>1
      <3>3. ASSUME outgoing_connection_asserting(leader, n, vs[n]), read[leader][n]
            PROVE  c \in StartsIn(pipe'[leader][n])
        BY <1>7, <1>8, <2>0, <2>5, <3>3
      <3>4. QED
        BY <1>1, <3>1, <3>2, <3>3 DEF StartSent, outgoing_connection_asserting
    <2>8. QED
      BY <2>2, <2>6, <2>7
  <1>16. ConnectionTypeOK' /\ TaskTypeOK' /\ OwnedHeldByAll'
    BY <1>1, <1>2, <1>8, <1>10, <1>12 DEF ChannelInv, ConnectionTypeOK, TaskTypeOK, OwnedHeldByAll, Grows
  <1>17. QED
    BY <1>8, <1>13, <1>14, <1>15, <1>16 DEF ChannelInv

-----------------------------------------------------------------------------
(* The invariant.                                                          *)

\* The empty table of queues, and the kept Abort of a channel that is over.
LEMMA InitChannelInv ==
  ASSUME TasksInit
  PROVE  ChannelInv
  <1> DEFINE abort == [from |-> leader, kind |-> "Abort"]
             kept == [id |-> 0, buffer |-> <<abort>>]
  <1>0. leader \in Nodes
    BY ChannelsAssumption
  <1>1. PICK late \in {{}, Followers} :
          /\ senders = [n \in Nodes |-> IF n \in late THEN {0} ELSE {}]
          /\ waiting = [n \in Nodes |-> IF n \in late THEN <<kept>> ELSE <<>>]
    BY DEF TasksInit
  <1>2. /\ last_id = 0
        /\ channels = [n \in Nodes |-> <<>>] /\ shares = [n \in Nodes |-> {}] /\ owned = {}
        /\ started = [n \in Nodes |-> {0}]
    BY DEF TasksInit
  <1>3. ConnectionTypeOK
    <2>1. <<>> \in Queues
      BY EmptySeq DEF Queues
    <2>2. /\ [version |-> 1, up |-> TRUE] \in OutgoingEnds
          /\ [version |-> 1, up |-> TRUE, id |-> 0] \in IncomingEnds
      BY DEF OutgoingEnds, IncomingEnds
    <2>3. QED
      BY <2>1, <2>2 DEF TasksInit, ConnectionsInit, ConnectionTypeOK
  <1>4. TaskTypeOK
    BY <1>1, <1>2 DEF TaskTypeOK
  <1>5. \A a, b \in Nodes : pipe[a][b] = <<>> /\ old[a][b] = <<>>
    BY DEF TasksInit, ConnectionsInit
  <1>6. QueuesInv
    BY <1>5, EmptySeq DEF QueuesInv
  <1>7. StartsInv
    <2>1. \A B : Announced(B, <<>>)
      BY DEF Announced
    <2>2. live(leader) = {}
      BY <1>0, <1>2 DEF live
    <2>3. QED
      BY <1>0, <1>5, <2>1, <2>2 DEF StartsInv, Followers
  <1>8. OwnedHeldByAll
    BY <1>2 DEF OwnedHeldByAll
  <1>9. \A n \in Nodes : NodeOK(n)
    <2> SUFFICES ASSUME NEW n \in Nodes PROVE NodeOK(n)
      OBVIOUS
    <2>1. live(n) = {} /\ channels[n] = [c \in live(n) |-> channels[n][c]]
      BY <1>2 DEF live
    <2>2. CASE n \in late
      <3>1. abort \in Heard /\ abort \in Arrived(0)
        BY <1>0 DEF Heard, Kinds, Arrived
      <3> HIDE DEF abort
      <3>2. <<abort>> \in Seq(Heard) /\ <<abort>> \in Seq(Arrived(0))
        BY <3>1, OneMessage
      <3>3. 0 \in started[n]
        BY <1>2
      <3>4. kept \in [id : Nat, buffer : Seq(Heard)] /\ kept.id = 0 /\ kept.buffer = <<abort>>
        BY <3>2
      <3> HIDE DEF kept
      <3>5. kept \in Kept(n)
        <4>1. kept.id <= last_id
          BY <1>2, <3>4
        <4>2. kept.buffer \in Seq(Arrived(kept.id))
          BY <3>2, <3>4
        <4>3. kept.id \in started[n]
          BY <3>3, <3>4
        <4>4. QED
          BY <3>4, <4>1, <4>2, <4>3 DEF Kept
      <3>6. <<kept>> \in Seq(Kept(n)) /\ DOMAIN <<kept>> = {1} /\ <<kept>>[1] = kept
        BY <3>5, OneMessage
      <3>7. waiting[n] = <<kept>> /\ senders[n] = {0} /\ Len(waiting[n]) = 1
        BY <1>1, <2>2
      <3>8. WaitingFor(n) = {0} /\ Distinct(waiting[n])
        BY <3>4, <3>6, <3>7 DEF WaitingFor, Distinct
      <3>9. SenderOK(n)
        BY <2>1, <3>7, <3>8, ChannelsAssumption DEF SenderOK
      <3>10. QED
        BY <2>1, <3>6, <3>7, <3>8, <3>9 DEF NodeOK
    <2>3. CASE n \notin late
      <3>1. waiting[n] = <<>> /\ senders[n] = {} /\ <<>> \in Seq(Kept(n)) /\ Len(<<>>) = 0
            /\ DOMAIN <<>> = {}
        BY <1>1, <2>3, EmptySeq
      <3>2. WaitingFor(n) = {} /\ Distinct(waiting[n])
        BY <3>1 DEF WaitingFor, Distinct
      <3>3. SenderOK(n)
        BY <2>1, <3>1, <3>2, ChannelsAssumption DEF SenderOK
      <3>4. QED
        BY <2>1, <3>1, <3>2, <3>3 DEF NodeOK
    <2>4. QED
      BY <2>2, <2>3
  <1>10. QED
    BY <1>3, <1>4, <1>6, <1>7, <1>8, <1>9 DEF ChannelInv

\* Every step of the nodes, the connections and the faults keeps it.
LEMMA NextChannelInv ==
  ASSUME ChannelInv, [Next]_netVars
  PROVE  ChannelInv'
  <1>1. CASE new_channel_for_task
    BY <1>1, NewChannelKeeps
  <1>2. ASSUME NEW n \in Nodes, NEW c \in live(n), TaskStep(n, c) \/ time_out(n, c)
        PROVE  ChannelInv'
    <2>1. CASE initialize_all_participants_connections(n, c)
      BY <2>1, InitializeKeeps
    <2>2. CASE cannot_send(n, c) \/ aborted(n, c) \/ interrupted(n, c) \/ time_out(n, c)
      <3>1. fails(n, c)
        BY <2>2 DEF cannot_send, aborted, interrupted, time_out
      <3>2. QED
        BY <3>1, FailsKeeps
    <2>3. CASE receive_one(n, c)
      BY <2>3, ReceiveOneKeeps
    <2>4. CASE compute_returns(n, c)
      BY <2>4, ComputeReturnsKeeps
    <2>5. CASE communicate_success(n, c)
      BY <2>5, SuccessKeeps
    <2>6. CASE n = leader /\ add_owned(c)
      BY <2>6, AddOwnedKeeps
    <2>7. QED
      BY <1>2, <2>1, <2>2, <2>3, <2>4, <2>5, <2>6 DEF TaskStep
  <1>3. ASSUME NEW p \in Pairs, \/ Receives(p[1], p[2])
                                \/ ConnectionStep(p[1], p[2])
                                \/ break(p[1], p[2]) /\ UNCHANGED chanVars
        PROVE  ChannelInv'
    <2>0. p[1] \in Nodes /\ p[2] \in Nodes /\ p[1] # p[2]
      BY DEF Pairs
    <2>1. CASE Receives(p[1], p[2])
      BY <2>0, <2>1, ReceiveKeeps DEF Receives
    <2>2. CASE ConnectionStep(p[1], p[2])
      <3>1. UNCHANGED chanVars
        BY <2>2 DEF ConnectionStep
      <3>2. CASE connect(p[1], p[2])
        BY <2>0, <3>1, <3>2, ConnectKeeps
      <3>3. CASE outgoing_closes(p[1], p[2]) \/ incoming_closes(p[2], p[1])
        BY <2>0, <3>1, <3>3, CloseKeeps
      <3>4. QED
        BY <2>2, <3>2, <3>3 DEF ConnectionStep
    <2>3. CASE break(p[1], p[2]) /\ UNCHANGED chanVars
      BY <2>0, <2>3, BreakKeeps
    <2>4. QED
      BY <1>3, <2>1, <2>2, <2>3
  <1>4. ASSUME NEW n \in Nodes, crash(n) PROVE ChannelInv'
    BY <1>4, CrashKeeps
  <1>5. CASE UNCHANGED netVars
    <2>1. UNCHANGED chanVars /\ UNCHANGED connVars
      BY <1>5 DEF netVars
    <2>2. UNCHANGED <<outgoing, incoming, connection_attempt, pipe, read, old>>
      BY <2>1 DEF connVars
    <2>3. UNCHANGED <<pipe, old, read>> /\ ConnectionTypeOK'
      BY <2>2 DEF ChannelInv, ConnectionTypeOK
    <2>4. QED
      BY <2>1, <2>2, <2>3, OutgoingCloses
  <1>6. QED
    BY <1>1, <1>2, <1>3, <1>4, <1>5 DEF Next

\* The invariant holds in every state of every behaviour.
THEOREM AlwaysChannelInv == TasksSpec => []ChannelInv
  <1>1. TasksInit => ChannelInv
    BY InitChannelInv
  <1>2. ChannelInv /\ [Next]_netVars => ChannelInv'
    BY NextChannelInv
  <1>3. QED
    BY <1>1, <1>2, PTL DEF TasksSpec

\* The INVARIANT that sender_for states holds for any number of nodes, channels
\* and places in the LruCache, whatever fails: each sender belongs to a channel
\* that waits for its start or to one that lives, never to both or to neither.
THEOREM SendersTheorem == TasksSpec => []SendersInvariant
  <1>1. ChannelInv => SendersInvariant
    BY DEF ChannelInv, NodeOK, SenderOK, SendersInvariant
  <1>2. QED
    BY <1>1, AlwaysChannelInv, PTL

\* An asset that the leader counts as its own is one of which every follower
\* has stored a share: a Success is sent only after the share was stored, and
\* the leader waits for all of them (wait_for_followers_to_succeed).
THEOREM OwnedTheorem == TasksSpec => []OwnedHeldByAll
  <1>1. ChannelInv => OwnedHeldByAll
    BY DEF ChannelInv
  <1>2. QED
    BY <1>1, AlwaysChannelInv, PTL

\* What a follower keeps of the leader belongs to a channel that has begun: no
\* message of the leader outruns its Start, although connections break and are
\* replaced while older ones are still read.
THEOREM StartTheorem == TasksSpec => []StartComesFirst
  <1>1. ChannelInv => StartComesFirst
    <2> SUFFICES ASSUME ChannelInv, NEW n \in Followers, NEW i \in DOMAIN waiting[n],
                        \E j \in DOMAIN waiting[n][i].buffer : waiting[n][i].buffer[j].from = leader
                 PROVE  waiting[n][i].id \in started[n]
      BY DEF StartComesFirst
    <2>1. n \in Nodes /\ n # leader
      BY DEF Followers
    <2>2. waiting[n] \in Seq(Kept(n))
      BY <2>1 DEF ChannelInv, NodeOK
    <2>3. waiting[n][i] \in Kept(n)
      BY <2>2, LenProperties, ElementOfSeq
    <2>4. QED
      BY <2>1, <2>3 DEF Kept
  <1>2. QED
    BY <1>1, AlwaysChannelInv, PTL
=============================================================================
