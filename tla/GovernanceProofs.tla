-------------------------- MODULE GovernanceProofs --------------------------
(***************************************************************************)
(* Proofs about what the participants decide besides keys and committee,   *)
(* for any number of accounts, images and calls: an update is executed     *)
(* only if a threshold of the present committee is for it, an image keeps  *)
(* its grace period, and what belongs to a participant changes by its own  *)
(* calls only.                                                             *)
(*                                                                         *)
(* The list of allowed images has to be sorted by time and free of         *)
(* repetitions, and what comes after an image whose time is not over has   *)
(* to be young enough; and a resharing must not change the node of a       *)
(* participant who stays.                                                  *)
(***************************************************************************)
EXTENDS Governance, SequenceTheorems, WellFoundedInduction, TLAPS

Images == [image_hash : Hashes, added : Nat]

\* A list of images at time t: sorted, without repetitions.
Listed(s, t) ==
    /\ s \in Seq(Images)
    /\ \A i, j \in 1 .. Len(s) : i < j => s[i].added <= s[j].added /\ s[i].image_hash # s[j].image_hash
    /\ \A i \in 1 .. Len(s) : s[i].added <= t

ImagesOK(s, t) == Listed(s, t) /\ Len(s) > 0

\* Image h is in the list, and nothing after it ends its time before d.
Covered(s, h, d) ==
    \E i \in 1 .. Len(s) :
        /\ s[i].image_hash = h
        /\ \A j \in i + 1 .. Len(s) : d <= s[j].added + tee_upgrade_deadline_duration

PromisesOK(s, t, p) ==
    /\ p \in [Hashes -> Int]
    /\ \A h \in Hashes : /\ p[h] <= t + tee_upgrade_deadline_duration
                         /\ t <= p[h] => Covered(s, h, p[h])

ImagesInv ==
    /\ now \in Nat
    /\ ImagesOK(allowed_tee_proposals, now)
    /\ PromisesOK(allowed_tee_proposals, now, promised)

\* The participants who stay keep their nodes.
NodesInv ==
    /\ IsThresholdParameters(parameters) /\ IsThresholdParameters(prospective)
    /\ DOMAIN node = Accounts /\ DOMAIN prospective_node = Accounts
    /\ \A p \in drafts : IsThresholdParameters(p.parameters) /\ DOMAIN p.node = Accounts
    /\ phase = "Resharing" =>
          \A a \in Participants \cap Members(prospective) : prospective_node[a] = node[a]

GovernanceInv == ImagesInv /\ NodesInv

-----------------------------------------------------------------------------
(* The list of images.                                                     *)

\* A set of indices has a largest one.
LEMMA LargestIndex ==
  ASSUME NEW n \in Nat, NEW S \in SUBSET (1 .. n), S # {}
  PROVE  \E i \in S : \A j \in S : j <= i
  <1> DEFINE T == {n - i : i \in S}
  <1>1. T \subseteq Nat /\ T # {}
    <2>1. \A i \in S : i \in 1 .. n /\ n - i \in Nat
      OBVIOUS
    <2>2. PICK i \in S : TRUE
      OBVIOUS
    <2>3. n - i \in T
      OBVIOUS
    <2>4. QED
      BY <2>1, <2>3
  <1> DEFINE R == OpToRel(<, Nat)
  <1>2. IsWellFoundedOn(R, Nat)
    BY NatLessThanWellFounded
  <1>3. \A x, y \in Nat : <<y, x>> \in R <=> y < x
    BY DEF OpToRel
  <1> HIDE DEF R
  <1>4. PICK x \in T : \A y \in T : ~ (<<y, x>> \in R)
    <2> HIDE DEF T
    <2>1. QED
      BY <1>1, <1>2, WFMin
  <1>5. PICK i \in S : x = n - i
    BY <1>4
  <1>6. \A j \in S : ~ (n - j < n - i)
    BY <1>1, <1>3, <1>4, <1>5
  <1>7. QED
    BY <1>6

\* A part of a list that ends where it does.
LEMMA LaterPart ==
  ASSUME NEW S, NEW s \in Seq(S), NEW c \in 1 .. Len(s)
  PROVE  /\ SubSeq(s, c, Len(s)) \in Seq(S)
         /\ Len(SubSeq(s, c, Len(s))) = Len(s) - c + 1
         /\ \A k \in 1 .. Len(s) - c + 1 : SubSeq(s, c, Len(s))[k] = s[c + k - 1]
  <1>1. Len(s) \in Nat /\ \A i \in c .. Len(s) : s[i] \in S
    BY LenProperties, ElementOfSeq
  <1>2. QED
    BY <1>1, SubSeqProperties

\* One element is taken out of a list.
LEMMA RemovedAt ==
  ASSUME NEW S, NEW s \in Seq(S), NEW c \in 1 .. Len(s)
  PROVE  /\ RemoveAt(s, c) \in Seq(S) /\ Len(RemoveAt(s, c)) = Len(s) - 1 /\ Len(s) \in Nat
         /\ \A k \in 1 .. Len(s) - 1 : RemoveAt(s, c)[k] = IF k < c THEN s[k] ELSE s[k + 1]
  <1> DEFINE n == Len(s)
             u == SubSeq(s, 1, c - 1)
             v == SubSeq(s, c + 1, n)
  <1>1. n \in Nat /\ \A i \in 1 .. n : s[i] \in S
    BY LenProperties, ElementOfSeq
  <1>2. u \in Seq(S) /\ Len(u) = c - 1 /\ \A k \in 1 .. c - 1 : u[k] = s[k]
    <2>1. /\ u \in Seq(S) /\ Len(u) = IF 1 <= c - 1 THEN (c - 1) - 1 + 1 ELSE 0
          /\ \A k \in 1 .. (c - 1) - 1 + 1 : u[k] = s[1 + k - 1]
      BY <1>1, SubSeqProperties
    <2>2. \A k \in 1 .. c - 1 : k \in 1 .. (c - 1) - 1 + 1 /\ 1 + k - 1 = k
      BY <1>1
    <2> HIDE DEF u, n
    <2>3. QED
      BY <1>1, <2>1, <2>2
  <1>3. v \in Seq(S) /\ Len(v) = n - c /\ \A k \in 1 .. n - c : v[k] = s[c + k]
    <2>1. /\ v \in Seq(S) /\ Len(v) = IF c + 1 <= n THEN n - (c + 1) + 1 ELSE 0
          /\ \A k \in 1 .. n - (c + 1) + 1 : v[k] = s[(c + 1) + k - 1]
      BY <1>1, SubSeqProperties
    <2>2. \A k \in 1 .. n - c : k \in 1 .. n - (c + 1) + 1 /\ (c + 1) + k - 1 = c + k
      BY <1>1
    <2> HIDE DEF v
    <2>3. QED
      BY <1>1, <2>1, <2>2
  <1>4. RemoveAt(s, c) = u \o v
    BY DEF RemoveAt
  <1> HIDE DEF u, v
  <1>5. /\ u \o v \in Seq(S) /\ Len(u \o v) = n - 1
        /\ \A k \in 1 .. n - 1 : (u \o v)[k] = IF k <= c - 1 THEN u[k] ELSE v[k - (c - 1)]
    <2>1. /\ u \o v \in Seq(S) /\ Len(u \o v) = Len(u) + Len(v)
          /\ \A k \in 1 .. Len(u) + Len(v) : (u \o v)[k] = IF k <= Len(u) THEN u[k] ELSE v[k - Len(u)]
      BY <1>2, <1>3, ConcatProperties
    <2>2. Len(u) + Len(v) = n - 1
      BY <1>1, <1>2, <1>3
    <2>3. QED
      BY <1>2, <2>1, <2>2
  <1> HIDE DEF n
  <1>6. ASSUME NEW k \in 1 .. n - 1 PROVE (u \o v)[k] = IF k < c THEN s[k] ELSE s[k + 1]
    <2>1. CASE k < c
      <3>1. k \in 1 .. c - 1 /\ k <= c - 1
        BY <1>1, <2>1
      <3>2. QED
        BY <1>2, <1>5, <2>1, <3>1
    <2>2. CASE ~ (k < c)
      <3>1. k - (c - 1) \in 1 .. n - c /\ ~ (k <= c - 1) /\ c + (k - (c - 1)) = k + 1
        BY <1>1, <2>2 DEF n
      <3>2. QED
        BY <1>3, <1>5, <2>2, <3>1
    <2>3. QED
      BY <2>1, <2>2
  <1>7. QED
    BY <1>1, <1>4, <1>5, <1>6 DEF n

\* The images of a list are from the past.
LEMMA FromPast ==
  ASSUME NEW s, NEW t, Listed(s, t), NEW i \in 1 .. Len(s)
  PROVE  s[i].added <= t /\ s[i].added \in Nat
  <1>1. s[i].added <= t
    BY Zenon DEF Listed
  <1>2. s[i] \in Images
    BY ElementOfSeq DEF Listed
  <1>3. s[i].added \in Nat
    BY <1>2 DEF Images
  <1>4. QED
    BY <1>1, <1>3

\* valid_entries: what is cut off are the images before one whose grace period
\* has passed.
LEMMA Cutoff ==
  ASSUME ImagesInv
  PROVE  /\ cutoff_index \in 1 .. Len(allowed_tee_proposals)
         /\ cutoff_index # 1 =>
               allowed_tee_proposals[cutoff_index].added + tee_upgrade_deadline_duration < now
  <1> DEFINE s == allowed_tee_proposals
             n == Len(s)
             passed == {i \in DOMAIN s : s[i].added + tee_upgrade_deadline_duration < now}
  <1>1. n \in Nat /\ n > 0 /\ DOMAIN s = 1 .. n
    BY LenProperties DEF ImagesInv, ImagesOK, Listed
  <1>2. CASE passed = {}
    <2>1. cutoff_index = 1
      BY <1>2 DEF cutoff_index
    <2>2. QED
      BY <1>1, <2>1
  <1>3. CASE passed # {}
    <2>1. passed \in SUBSET (1 .. n)
      BY <1>1
    <2>2. cutoff_index = CHOOSE i \in passed : \A j \in passed : j <= i
      BY <1>3 DEF cutoff_index
    <2>3. cutoff_index \in passed
      <3> HIDE DEF passed
      <3>1. \E i \in passed : \A j \in passed : j <= i
        BY <1>1, <1>3, <2>1, LargestIndex
      <3>2. QED
        BY <2>2, <3>1
    <2>4. QED
      BY <1>1, <2>3
  <1>4. QED
    BY <1>2, <1>3

\* An image whose time is not over is not cut off.
LEMMA NotCutOff ==
  ASSUME ImagesInv, NEW h, NEW d \in Int, now <= d, Covered(allowed_tee_proposals, h, d)
  PROVE  Covered(valid_entries, h, d)
  <1> DEFINE s == allowed_tee_proposals
             n == Len(s)
             c == cutoff_index
             v == valid_entries
  <1>1. s \in Seq(Images) /\ n \in Nat /\ now \in Nat /\ tee_upgrade_deadline_duration \in Nat
        /\ \A i \in 1 .. n : s[i] \in Images
    BY LenProperties, ElementOfSeq, GovernanceAssumption DEF ImagesInv, ImagesOK, Listed
  <1>2. c \in 1 .. n /\ (c # 1 => s[c].added + tee_upgrade_deadline_duration < now)
    BY Cutoff
  <1>3. v \in Seq(Images) /\ Len(v) = n - c + 1 /\ \A k \in 1 .. n - c + 1 : v[k] = s[c + k - 1]
    BY <1>1, <1>2, LaterPart DEF valid_entries
  <1>4. PICK i \in 1 .. n : /\ s[i].image_hash = h
                            /\ \A j \in i + 1 .. n : d <= s[j].added + tee_upgrade_deadline_duration
    BY DEF Covered
  <1> HIDE DEF s, n, c, v
  <1>5. c <= i
    <2> SUFFICES ASSUME c > i PROVE FALSE
      BY <1>1, <1>2
    <2>1. c # 1 /\ c \in i + 1 .. n /\ s[c].added \in Nat
      BY <1>1, <1>2 DEF Images
    <2>2. d <= s[c].added + tee_upgrade_deadline_duration /\ s[c].added + tee_upgrade_deadline_duration < now
      BY <1>2, <1>4, <2>1
    <2>3. QED
      BY <1>1, <2>1, <2>2
  <1>6. i - c + 1 \in 1 .. Len(v) /\ v[i - c + 1].image_hash = h
    <2>1. i - c + 1 \in 1 .. n - c + 1 /\ c + (i - c + 1) - 1 = i
      BY <1>1, <1>2, <1>5
    <2>2. QED
      BY <1>3, <1>4, <2>1
  <1>7. \A j \in (i - c + 1) + 1 .. Len(v) : d <= v[j].added + tee_upgrade_deadline_duration
    <2> SUFFICES ASSUME NEW j \in (i - c + 1) + 1 .. Len(v)
                 PROVE  d <= v[j].added + tee_upgrade_deadline_duration
      OBVIOUS
    <2>1. j \in 1 .. n - c + 1 /\ c + j - 1 \in i + 1 .. n
      BY <1>1, <1>2, <1>3, <1>5
    <2>2. QED
      BY <1>3, <1>4, <2>1
  <1>8. QED
    BY <1>6, <1>7 DEF Covered, v

\* cleanup_expired_hashes keeps what has to be kept, the newest image first.
LEMMA ValidOK ==
  ASSUME ImagesInv
  PROVE  /\ ImagesOK(valid_entries, now) /\ PromisesOK(valid_entries, now, promised)
         /\ valid_entries[Len(valid_entries)] = allowed_tee_proposals[Len(allowed_tee_proposals)]
  <1> DEFINE s == allowed_tee_proposals
             n == Len(s)
             c == cutoff_index
             v == valid_entries
  <1>1. /\ s \in Seq(Images) /\ n \in Nat /\ n > 0 /\ now \in Nat
        /\ \A i, j \in 1 .. n : i < j => s[i].added <= s[j].added /\ s[i].image_hash # s[j].image_hash
        /\ \A i \in 1 .. n : s[i].added <= now
    BY LenProperties DEF ImagesInv, ImagesOK, Listed
  <1>2. c \in 1 .. n
    BY Cutoff
  <1>3. v \in Seq(Images) /\ Len(v) = n - c + 1 /\ \A k \in 1 .. n - c + 1 : v[k] = s[c + k - 1]
    BY <1>1, <1>2, LaterPart DEF valid_entries
  <1>4. PromisesOK(v, now, promised)
    BY NotCutOff DEF ImagesInv, PromisesOK
  <1> HIDE DEF s, n, c, v
  <1>5. v[Len(v)] = s[n]
    <2>1. n - c + 1 \in 1 .. n - c + 1 /\ c + (n - c + 1) - 1 = n
      BY <1>1, <1>2
    <2>2. QED
      BY <1>3, <2>1
  <1>6. \A k \in 1 .. Len(v) : c + k - 1 \in 1 .. n /\ v[k] = s[c + k - 1]
    <2> SUFFICES ASSUME NEW k \in 1 .. Len(v) PROVE c + k - 1 \in 1 .. n /\ v[k] = s[c + k - 1]
      OBVIOUS
    <2>1. k \in 1 .. n - c + 1 /\ c + k - 1 \in 1 .. n
      BY <1>1, <1>2, <1>3
    <2>2. QED
      BY <1>3, <2>1
  <1>7. ASSUME NEW i \in 1 .. Len(v), NEW j \in 1 .. Len(v), i < j
        PROVE  v[i].added <= v[j].added /\ v[i].image_hash # v[j].image_hash
    <2> DEFINE p == c + i - 1
               q == c + j - 1
    <2>1. p \in 1 .. n /\ q \in 1 .. n /\ p < q /\ v[i] = s[p] /\ v[j] = s[q]
      BY <1>2, <1>6, <1>7
    <2> HIDE DEF p, q
    <2>2. s[p].added <= s[q].added /\ s[p].image_hash # s[q].image_hash
      BY <1>1, <2>1
    <2>3. QED
      BY <2>1, <2>2
  <1>8. ASSUME NEW i \in 1 .. Len(v) PROVE v[i].added <= now
    <2> DEFINE p == c + i - 1
    <2>1. p \in 1 .. n /\ v[i] = s[p]
      BY <1>6
    <2> HIDE DEF p
    <2>2. s[p].added <= now
      BY <2>1, FromPast DEF ImagesInv, ImagesOK, s, n
    <2>3. QED
      BY <2>1, <2>2
  <1>9. Len(v) > 0
    BY <1>1, <1>2, <1>3
  <1>10. QED
    BY <1>3, <1>4, <1>5, <1>7, <1>8, <1>9 DEF ImagesOK, Listed, s, n, v

\* The list without image x.
Removed(s, x) == RemoveFirstMatch(s, LAMBDA e : e.image_hash = x)

\* Taking an image out of the list does not end the time of another.
LEMMA RemovedOK ==
  ASSUME NEW s, NEW t \in Nat, Listed(s, t), NEW x
  PROVE  /\ Listed(Removed(s, x), t)
         /\ \A i \in 1 .. Len(Removed(s, x)) : Removed(s, x)[i].image_hash # x
         /\ \A h, d : h # x /\ Covered(s, h, d) => Covered(Removed(s, x), h, d)
  <1> DEFINE n == Len(s)
             r == Removed(s, x)
  <1>1. /\ s \in Seq(Images) /\ n \in Nat
        /\ \A i, j \in 1 .. n : i < j => s[i].added <= s[j].added /\ s[i].image_hash # s[j].image_hash
        /\ \A i \in 1 .. n : s[i].added <= t
    BY LenProperties DEF Listed
  <1>2. CASE \A i \in 1 .. n : s[i].image_hash # x
    <2>1. r = s
      BY <1>2 DEF Removed, RemoveFirstMatch
    <2>2. QED
      BY <1>2, <2>1
  <1>3. ASSUME NEW c \in 1 .. n, s[c].image_hash = x
        PROVE  /\ Listed(r, t) /\ \A i \in 1 .. Len(r) : r[i].image_hash # x
               /\ \A h, d : h # x /\ Covered(s, h, d) => Covered(r, h, d)
    <2>1. \A i \in 1 .. n : s[i].image_hash = x => i = c
      BY <1>1, <1>3
    <2>2. r = RemoveAt(s, c)
      <3> DEFINE I == {i \in 1 .. n : s[i].image_hash = x}
      <3>1. r = RemoveAt(s, IF I # {} THEN Min(I) ELSE 0)
        BY <1>3 DEF Removed, RemoveFirstMatch, SelectInSeq
      <3>2. I = {c}
        BY <1>3, <2>1
      <3>3. Min({c}) = c
        BY DEF Min
      <3> HIDE DEF I
      <3>4. QED
        BY <3>1, <3>2, <3>3
    <2>3. /\ r \in Seq(Images) /\ Len(r) = n - 1
          /\ \A k \in 1 .. n - 1 : r[k] = IF k < c THEN s[k] ELSE s[k + 1]
      BY <1>1, <2>2, RemovedAt
    <2> HIDE DEF r, n
    <2> DEFINE at(k) == IF k < c THEN k ELSE k + 1
    <2>4. \A k \in 1 .. Len(r) : /\ at(k) \in 1 .. n /\ r[k] = s[at(k)] /\ at(k) # c
      <3> SUFFICES ASSUME NEW k \in 1 .. Len(r)
                   PROVE  at(k) \in 1 .. n /\ r[k] = s[at(k)] /\ at(k) # c
        OBVIOUS
      <3>1. k \in 1 .. n - 1 /\ at(k) \in 1 .. n /\ at(k) # c
        BY <1>1, <2>3
      <3>2. r[k] = s[at(k)]
        BY <2>3, <3>1
      <3>3. QED
        BY <3>1, <3>2
    <2>5. \A k, l \in 1 .. Len(r) : k < l => at(k) < at(l)
      BY <1>1, <2>3
    <2> HIDE DEF at
    <2>6. Listed(r, t)
      <3>1. ASSUME NEW i \in 1 .. Len(r), NEW j \in 1 .. Len(r), i < j
            PROVE  r[i].added <= r[j].added /\ r[i].image_hash # r[j].image_hash
        <4> DEFINE p == at(i)
                   q == at(j)
        <4>1. p \in 1 .. n /\ q \in 1 .. n /\ p < q /\ r[i] = s[p] /\ r[j] = s[q]
          BY <2>4, <2>5, <3>1
        <4> HIDE DEF p, q
        <4>2. s[p].added <= s[q].added /\ s[p].image_hash # s[q].image_hash
          BY <1>1, <4>1
        <4>3. QED
          BY <4>1, <4>2
      <3>2. ASSUME NEW i \in 1 .. Len(r) PROVE r[i].added <= t
        <4> DEFINE p == at(i)
        <4>1. p \in 1 .. n /\ r[i] = s[p]
          BY <2>4
        <4> HIDE DEF p
        <4>2. s[p].added <= t
          BY <4>1, FromPast DEF n
        <4>3. QED
          BY <4>1, <4>2
      <3>3. QED
        BY <2>3, <3>1, <3>2 DEF Listed
    <2>7. \A i \in 1 .. Len(r) : r[i].image_hash # x
      BY <2>1, <2>4
    <2>8. ASSUME NEW h, NEW d, h # x, Covered(s, h, d) PROVE Covered(r, h, d)
      <3>1. PICK i \in 1 .. n : /\ s[i].image_hash = h
                                /\ \A j \in i + 1 .. n : d <= s[j].added + tee_upgrade_deadline_duration
        BY <2>8 DEF Covered, n
      <3>2. i # c
        BY <1>3, <2>8, <3>1
      <3> DEFINE k == IF i < c THEN i ELSE i - 1
      <3>3. k \in 1 .. Len(r) /\ at(k) = i
        BY <1>1, <2>3, <3>2 DEF at
      <3> HIDE DEF k
      <3>4. r[k].image_hash = h
        BY <2>4, <3>1, <3>3
      <3>5. ASSUME NEW j \in k + 1 .. Len(r) PROVE d <= r[j].added + tee_upgrade_deadline_duration
        <4>1. j \in 1 .. Len(r) /\ k < j
          BY <1>1, <2>3, <3>3
        <4>2. at(j) \in 1 .. n /\ i < at(j)
          BY <2>4, <2>5, <3>3, <4>1
        <4>3. at(j) \in i + 1 .. n
          BY <1>1, <4>2
        <4>4. QED
          BY <2>4, <3>1, <4>1, <4>3
      <3>6. QED
        BY <3>3, <3>4, <3>5 DEF Covered
    <2>9. QED
      BY <2>6, <2>7, <2>8
  <1>4. QED
    BY <1>2, <1>3

\* An image becomes the newest.
LEMMA NewestOK ==
  ASSUME NEW r, NEW t \in Nat, Listed(r, t), NEW x \in Hashes,
         \A i \in 1 .. Len(r) : r[i].image_hash # x
  PROVE  LET s == Append(r, [image_hash |-> x, added |-> t]) IN
         /\ ImagesOK(s, t) /\ \A d : Covered(s, x, d)
         /\ \A h, d : Covered(r, h, d) /\ d <= t + tee_upgrade_deadline_duration => Covered(s, h, d)
  <1> DEFINE e == [image_hash |-> x, added |-> t]
             s == Append(r, e)
             n == Len(r)
  <1>1. /\ r \in Seq(Images) /\ n \in Nat
        /\ \A i, j \in 1 .. n : i < j => r[i].added <= r[j].added /\ r[i].image_hash # r[j].image_hash
        /\ \A i \in 1 .. n : r[i].added <= t
    BY LenProperties DEF Listed
  <1>2. e \in Images /\ e.image_hash = x /\ e.added = t
    BY DEF Images
  <1> HIDE DEF e
  <1>3. s \in Seq(Images) /\ Len(s) = n + 1 /\ s[n + 1] = e /\ \A i \in 1 .. n : s[i] = r[i]
    BY <1>1, <1>2, AppendProperties
  <1> HIDE DEF s, n
  <1>4. \A i \in 1 .. n + 1 : i \in 1 .. n \/ i = n + 1
    BY <1>1
  <1>5. ASSUME NEW i \in 1 .. n + 1 PROVE s[i].added <= t
    <2>1. CASE i \in 1 .. n
      <3>1. s[i] = r[i] /\ r[i].added <= t
        BY <1>3, <2>1, FromPast DEF n
      <3>2. QED
        BY <3>1
    <2>2. CASE i = n + 1
      <3>1. s[i].added = t
        BY <1>2, <1>3, <2>2
      <3>2. QED
        BY <3>1
    <2>3. QED
      BY <1>4, <2>1, <2>2
  <1>6. ASSUME NEW i \in 1 .. n + 1, NEW j \in 1 .. n + 1, i < j
        PROVE  s[i].added <= s[j].added /\ s[i].image_hash # s[j].image_hash
    <2>1. i \in 1 .. n
      BY <1>1, <1>6
    <2>2. CASE j \in 1 .. n
      <3>1. s[i] = r[i] /\ s[j] = r[j] /\ r[i].added <= r[j].added /\ r[i].image_hash # r[j].image_hash
        BY <1>1, <1>3, <1>6, <2>1, <2>2
      <3>2. QED
        BY <3>1
    <2>3. CASE j = n + 1
      <3>1. s[i] = r[i] /\ r[i].added <= t /\ r[i].image_hash # x
        BY <1>3, <2>1, FromPast DEF n
      <3>2. s[j].added = t /\ s[j].image_hash = x
        BY <1>2, <1>3, <2>3
      <3>3. QED
        BY <3>1, <3>2
    <2>4. QED
      BY <1>4, <2>2, <2>3
  <1>7. ImagesOK(s, t)
    BY <1>1, <1>3, <1>5, <1>6 DEF ImagesOK, Listed
  <1>8. \A d : Covered(s, x, d)
    <2>1. n + 1 \in 1 .. Len(s) /\ (n + 1) + 1 .. Len(s) = {} /\ s[n + 1].image_hash = x
      BY <1>1, <1>2, <1>3
    <2>2. QED
      BY <2>1 DEF Covered
  <1>9. ASSUME NEW h, NEW d, Covered(r, h, d), d <= t + tee_upgrade_deadline_duration PROVE Covered(s, h, d)
    <2>1. PICK i \in 1 .. n : /\ r[i].image_hash = h
                              /\ \A j \in i + 1 .. n : d <= r[j].added + tee_upgrade_deadline_duration
      BY <1>9 DEF Covered, n
    <2>2. ASSUME NEW j \in i + 1 .. n + 1 PROVE d <= s[j].added + tee_upgrade_deadline_duration
      <3>1. CASE j = n + 1
        BY <1>2, <1>3, <1>9, <3>1
      <3>2. CASE j # n + 1
        <4>1. j \in i + 1 .. n /\ j \in 1 .. n
          BY <1>1, <3>2
        <4>2. QED
          BY <1>3, <2>1, <4>1
      <3>3. QED
        BY <3>1, <3>2
    <2>3. i \in 1 .. Len(s) /\ s[i].image_hash = h
      BY <1>1, <1>3, <2>1
    <2>4. QED
      BY <1>3, <2>2, <2>3 DEF Covered
  <1>10. QED
    BY <1>7, <1>8, <1>9 DEF s, e

-----------------------------------------------------------------------------
(* Grace periods.                                                          *)

\* insert: the new image, and the promise made to the one that was the newest.
LEMMA InsertKeeps ==
  ASSUME ImagesInv, NEW hash \in Hashes,
         allowed_tee_proposals' = inserted(hash), now' = now,
         promised' = IF hash = newest_hash THEN promised
                     ELSE [promised EXCEPT ![newest_hash] = now + tee_upgrade_deadline_duration]
  PROVE  ImagesInv'
  <1> DEFINE v == valid_entries
             r == Removed(v, hash)
             s == Append(r, [image_hash |-> hash, added |-> now])
             D == now + tee_upgrade_deadline_duration
  <1>1. now \in Nat /\ tee_upgrade_deadline_duration \in Nat /\ D \in Nat
    BY GovernanceAssumption DEF ImagesInv
  <1>2. ImagesOK(v, now) /\ PromisesOK(v, now, promised) /\ v[Len(v)].image_hash = newest_hash
    BY ValidOK DEF newest_hash
  <1>3. allowed_tee_proposals' = s
    BY DEF inserted, Removed
  <1> HIDE DEF v
  <1>4. /\ Listed(r, now) /\ \A i \in 1 .. Len(r) : r[i].image_hash # hash
        /\ \A h, d : h # hash /\ Covered(v, h, d) => Covered(r, h, d)
    <2>1. Listed(v, now)
      BY <1>2 DEF ImagesOK
    <2>2. QED
      BY <1>1, <2>1, RemovedOK
  <1> HIDE DEF r
  <1>5. /\ ImagesOK(s, now) /\ \A d : Covered(s, hash, d)
        /\ \A h, d : Covered(r, h, d) /\ d <= D => Covered(s, h, d)
    BY <1>1, <1>4, NewestOK
  <1> HIDE DEF s, D
  <1>6. \A h, d : Covered(v, h, d) /\ d <= D => Covered(s, h, d)
    BY <1>4, <1>5
  <1>7. newest_hash \in Hashes /\ Covered(v, newest_hash, D)
    <2>1. Len(v) \in Nat /\ Len(v) > 0 /\ v[Len(v)] \in Images
      BY <1>2, LenProperties, ElementOfSeq DEF ImagesOK, Listed
    <2>2. Len(v) \in 1 .. Len(v) /\ Len(v) + 1 .. Len(v) = {}
      BY <2>1
    <2>3. Covered(v, newest_hash, D)
      BY <1>2, <2>2 DEF Covered
    <2>4. QED
      BY <1>2, <2>1, <2>3 DEF Images
  <1>8. /\ promised \in [Hashes -> Int]
        /\ \A h \in Hashes : promised[h] <= D /\ (now <= promised[h] => Covered(v, h, promised[h]))
    BY <1>2 DEF PromisesOK, D
  <1>9. /\ promised' \in [Hashes -> Int]
        /\ \A h \in Hashes : promised'[h] = promised[h] \/ (h = newest_hash /\ promised'[h] = D)
    <2>1. CASE hash = newest_hash
      <3>1. promised' = promised
        BY <2>1
      <3>2. QED
        BY <1>8, <3>1
    <2>2. CASE hash # newest_hash
      <3> DEFINE x == newest_hash
      <3>1. promised' = [promised EXCEPT ![x] = D] /\ x \in Hashes
        BY <1>7, <2>2 DEF D
      <3>2. promised \in [Hashes -> Int] /\ D \in Int
        BY <1>1, <1>8
      <3> HIDE DEF x
      <3>3. promised' \in [Hashes -> Int]
        BY <3>1, <3>2
      <3>4. \A h \in Hashes : promised'[h] = IF h = x THEN D ELSE promised[h]
        BY <3>1, <3>2
      <3>5. QED
        BY <3>3, <3>4 DEF x
    <2>3. QED
      BY <2>1, <2>2
  <1>10. PromisesOK(s, now, promised')
    <2> SUFFICES ASSUME NEW h \in Hashes
                 PROVE  /\ promised'[h] <= D
                        /\ now <= promised'[h] => Covered(s, h, promised'[h])
      BY <1>9 DEF PromisesOK, D
    <2>1. CASE promised'[h] = promised[h]
      <3>1. /\ promised[h] <= D
            /\ now <= promised[h] => Covered(v, h, promised[h])
        BY <1>8
      <3>2. now <= promised[h] => Covered(s, h, promised[h])
        BY <1>6, <3>1
      <3>3. QED
        BY <2>1, <3>1, <3>2
    <2>2. CASE h = newest_hash /\ promised'[h] = D
      BY <1>1, <1>6, <1>7, <2>2
    <2>3. QED
      BY <1>9, <2>1, <2>2
  <1>11. QED
    BY <1>1, <1>3, <1>5, <1>10 DEF ImagesInv

\* Time passes.
LEMMA TickKeeps ==
  ASSUME ImagesInv, now' = now + 1, UNCHANGED <<allowed_tee_proposals, promised>>
  PROVE  ImagesInv'
  <1> DEFINE s == allowed_tee_proposals
             t == now + 1
  <1>1. /\ now \in Nat /\ t \in Nat /\ tee_upgrade_deadline_duration \in Nat
        /\ Listed(s, now) /\ Len(s) > 0 /\ PromisesOK(s, now, promised)
    BY GovernanceAssumption DEF ImagesInv, ImagesOK
  <1>2. ASSUME NEW i \in 1 .. Len(s) PROVE s[i].added <= t
    <2>1. s[i].added <= now /\ s[i].added \in Nat
      BY <1>1, FromPast
    <2>2. QED
      BY <1>1, <2>1
  <1>3. PromisesOK(s, t, promised)
    <2>1. promised \in [Hashes -> Int]
      BY <1>1 DEF PromisesOK
    <2>2. ASSUME NEW h \in Hashes
          PROVE  /\ promised[h] <= t + tee_upgrade_deadline_duration
                 /\ t <= promised[h] => Covered(s, h, promised[h])
      <3>1. /\ promised[h] \in Int /\ promised[h] <= now + tee_upgrade_deadline_duration
            /\ now <= promised[h] => Covered(s, h, promised[h])
        BY <1>1, <2>1 DEF PromisesOK
      <3>2. QED
        BY <1>1, <3>1
    <2>3. QED
      BY <2>1, <2>2 DEF PromisesOK
  <1> HIDE DEF s, t
  <1>4. Listed(s, t)
    BY <1>1, <1>2 DEF Listed
  <1>5. now' = t /\ allowed_tee_proposals' = s
    BY DEF s, t
  <1>6. QED
    BY <1>1, <1>3, <1>4, <1>5 DEF ImagesInv, ImagesOK

\* What an image is promised is what GracePeriodKept asks for.
LEMMA GracePeriodFromInv ==
  ASSUME ImagesInv
  PROVE  GracePeriodKept
  <1> DEFINE v == valid_entries
  <1>1. ImagesOK(v, now) /\ PromisesOK(v, now, promised) /\ v[Len(v)].image_hash = newest_hash
    BY ValidOK DEF newest_hash
  <1>2. v \in Seq(Images) /\ Len(v) \in Nat /\ DOMAIN v = 1 .. Len(v) /\ Len(v) > 0
    BY <1>1, LenProperties DEF ImagesOK, Listed
  <1>3. get_allowed_mpc_docker_image_hashes = {v[i].image_hash : i \in 1 .. Len(v)}
    BY <1>2 DEF get_allowed_mpc_docker_image_hashes
  <1> HIDE DEF v
  <1>4. newest_hash \in get_allowed_mpc_docker_image_hashes
    <2>1. Len(v) \in 1 .. Len(v)
      BY <1>2
    <2>2. QED
      BY <1>1, <1>3, <2>1
  <1>5. ASSUME NEW h \in Hashes, now <= promised[h]
        PROVE  h \in get_allowed_mpc_docker_image_hashes
    <2>1. Covered(v, h, promised[h])
      BY <1>1, <1>5 DEF PromisesOK
    <2>2. QED
      BY <1>3, <2>1 DEF Covered
  <1>6. QED
    BY <1>4, <1>5 DEF GracePeriodKept

\* At first one image is allowed, and nothing is promised.
LEMMA InitImages ==
  ASSUME GovernanceInit
  PROVE  ImagesInv
  <1> DEFINE e == [image_hash |-> InitialHash, added |-> 0]
             s == allowed_tee_proposals
  <1>1. s = <<e>> /\ now = 0 /\ promised = [h \in Hashes |-> -1]
    BY DEF GovernanceInit
  <1>2. e \in Images /\ e.added = 0
    BY GovernanceAssumption DEF Images
  <1> HIDE DEF e
  <1>3. s \in Seq(Images) /\ Len(s) = 1 /\ s[1] = e
    BY <1>1, <1>2
  <1> HIDE DEF s
  <1>4. ImagesOK(s, 0)
    <2>1. \A i \in 1 .. 1 : i = 1
      OBVIOUS
    <2>2. QED
      BY <1>2, <1>3, <2>1 DEF ImagesOK, Listed
  <1>5. PromisesOK(s, 0, promised)
    BY <1>1, GovernanceAssumption DEF PromisesOK
  <1>6. QED
    BY <1>1, <1>4, <1>5 DEF ImagesInv, s

\* Every step keeps the list of images in order.
LEMMA NextImages ==
  ASSUME ImagesInv, [GovernanceNext]_allVars
  PROVE  ImagesInv'
  <1>1. ASSUME UNCHANGED <<allowed_tee_proposals, now, promised>> PROVE ImagesInv'
    BY <1>1 DEF ImagesInv
  <1>2. ASSUME NEW a \in Accounts, NEW h \in Hashes, vote_code_hash(a, h) PROVE ImagesInv'
    <2>1. CASE UNCHANGED <<allowed_tee_proposals, promised>>
      BY <1>1, <1>2, <2>1 DEF vote_code_hash
    <2>2. CASE allowed_tee_proposals' = inserted(h)
      BY <1>2, InsertKeeps DEF vote_code_hash, ImagesInv
    <2>3. QED
      BY <1>2, <2>1, <2>2 DEF vote_code_hash
  <1>3. ASSUME allowed_tee_proposals' = valid_entries, UNCHANGED <<now, promised>> PROVE ImagesInv'
    BY <1>3, ValidOK DEF ImagesInv
  <1>4. CASE Tick
    BY <1>4, TickKeeps DEF Tick
  <1>5. \/ UNCHANGED <<allowed_tee_proposals, now, promised>> \/ Tick
        \/ \E a \in Accounts, h \in Hashes : vote_code_hash(a, h)
        \/ allowed_tee_proposals' = valid_entries /\ UNCHANGED <<now, promised>>
    BY DEF GovernanceNext, allVars, governanceVars, hashVars, verify_tee, propose_update, vote_update, remove_update_vote,
           remove_non_participant_update_votes, vote_foreign_chain_policy, register_backup_service,
           start_node_migration, conclude_node_migration, cleanup_orphaned_node_migrations,
           vote_new_parameters, proposal_accepted, resharing_ends, resharing_fails, keygen_begins, keygen_ends
  <1>6. QED
    BY <1>1, <1>2, <1>3, <1>4, <1>5

-----------------------------------------------------------------------------
(* Nodes of participants.                                                  *)

\* Participants are accounts.
LEMMA MembersAreAccounts ==
  ASSUME NEW p, IsThresholdParameters(p)
  PROVE  Members(p) \subseteq Accounts
  BY DEF IsThresholdParameters, ParametersOver, Members

\* Fewer participants are parameters, too.
LEMMA RestrictedParameters ==
  ASSUME NEW p, IsThresholdParameters(p), NEW kept
  PROVE  IsThresholdParameters(RestrictTo(p, kept))
  <1>1. PICK S \in SUBSET Accounts : p \in ParametersOver(S)
    BY DEF IsThresholdParameters
  <1> DEFINE T == S \cap kept
             f == [a \in T |-> p.participants[a]]
  <1>2. Members(p) = S /\ p.participants \in [S -> Nat]
    BY <1>1 DEF Members, ParametersOver
  <1>3. f \in [T -> Nat]
    BY <1>2
  <1>4. RestrictTo(p, kept) = [p EXCEPT !.participants = f]
    BY <1>2 DEF RestrictTo
  <1> HIDE DEF T, f
  <1>5. RestrictTo(p, kept) \in ParametersOver(T)
    BY <1>1, <1>3, <1>4 DEF ParametersOver
  <1>6. T \in SUBSET Accounts
    BY <1>1 DEF T
  <1>7. QED
    BY <1>5, <1>6 DEF IsThresholdParameters

\* conclude_node_migration changes the node of its participant, in the
\* parameters in force and in those that are reshared to.
LEMMA ConcludeKeeps ==
  ASSUME NodesInv, NEW b \in Accounts, conclude_node_migration(b)
  PROVE  /\ NodesInv' /\ DOMAIN node' = Accounts
         /\ \A a \in Accounts : a # b => node'[a] = node[a] /\ prospective_node'[a] = prospective_node[a]
  <1> DEFINE m == ongoing_migrations[b]
  <1>1. /\ UNCHANGED <<phase, parameters, prospective, drafts>>
        /\ node' = [node EXCEPT ![b] = m] /\ prospective_node' = [prospective_node EXCEPT ![b] = m]
    BY DEF conclude_node_migration, committeeVars
  <1>2. DOMAIN node = Accounts /\ DOMAIN prospective_node = Accounts
    BY DEF NodesInv
  <1> HIDE DEF m
  <1>3. /\ DOMAIN node' = Accounts /\ DOMAIN prospective_node' = Accounts
        /\ node'[b] = m /\ prospective_node'[b] = m
        /\ \A a \in Accounts : a # b => node'[a] = node[a] /\ prospective_node'[a] = prospective_node[a]
    BY <1>1, <1>2
  <1>4. ASSUME phase = "Resharing", NEW a \in Participants \cap Members(prospective)
        PROVE  prospective_node'[a] = node'[a]
    <2>1. a \in Accounts /\ prospective_node[a] = node[a]
      BY <1>4, MembersAreAccounts DEF NodesInv, Participants
    <2>2. QED
      BY <1>3, <2>1
  <1>5. NodesInv'
    BY <1>1, <1>3, <1>4 DEF NodesInv, Participants
  <1>6. QED
    BY <1>3, <1>5

\* Every step keeps the nodes of those who stay.
LEMMA NextNodes ==
  ASSUME NodesInv, [GovernanceNext]_allVars
  PROVE  NodesInv'
  <1>1. ASSUME UNCHANGED <<phase, parameters, prospective, node, prospective_node, drafts>> PROVE NodesInv'
    BY <1>1 DEF NodesInv, Participants
  <1>2. ASSUME NEW b \in Accounts, conclude_node_migration(b) PROVE NodesInv'
    BY <1>2, ConcludeKeeps
  <1>3. ASSUME NEW b \in Accounts, NEW kept \in SUBSET Participants, verify_tee(b, kept) PROVE NodesInv'
    <2>1. CASE UNCHANGED <<committeeVars, nodeVars>>
      BY <1>1, <2>1 DEF committeeVars, nodeVars
    <2>2. CASE /\ begin_resharing(RestrictTo(parameters, kept)) /\ prospective_node' = node
               /\ drafts' = {} /\ UNCHANGED node
      <3>1. UNCHANGED parameters /\ prospective' = RestrictTo(parameters, kept)
        BY <2>2 DEF begin_resharing
      <3>2. IsThresholdParameters(prospective')
        BY <3>1, RestrictedParameters DEF NodesInv
      <3>3. QED
        BY <2>2, <3>1, <3>2 DEF NodesInv, Participants
    <2>3. QED
      BY <1>3, <2>1, <2>2 DEF verify_tee
  <1>4. ASSUME NEW p \in Proposals, NEW d \in NodesOf, vote_new_parameters(p, d) PROVE NodesInv'
    <2> DEFINE f == [a \in Accounts |-> IF a \in Members(p) \ Participants THEN d ELSE node[a]]
    <2>1. /\ UNCHANGED <<phase, parameters, prospective, node, prospective_node>>
          /\ drafts' = drafts \cup {[parameters |-> p, node |-> f]}
      BY <1>4 DEF vote_new_parameters, committeeVars
    <2>2. IsThresholdParameters(p) /\ DOMAIN f = Accounts
      BY GovernanceAssumption
    <2> HIDE DEF f
    <2>3. \A q \in drafts' : IsThresholdParameters(q.parameters) /\ DOMAIN q.node = Accounts
      BY <2>1, <2>2 DEF NodesInv
    <2>4. QED
      BY <2>1, <2>3 DEF NodesInv, Participants
  <1>5. ASSUME NEW p \in drafts, proposal_accepted(p) PROVE NodesInv'
    <2>1. /\ UNCHANGED <<parameters, node>> /\ prospective' = p.parameters /\ prospective_node' = p.node
          /\ drafts' = {} /\ SameNodes(p)
      BY <1>5 DEF proposal_accepted, begin_resharing
    <2>2. IsThresholdParameters(p.parameters) /\ DOMAIN p.node = Accounts
      BY <1>5 DEF NodesInv
    <2>3. QED
      BY <2>1, <2>2 DEF NodesInv, Participants, SameNodes
  <1>6. CASE resharing_ends
    BY <1>6 DEF resharing_ends, handed_over, NodesInv
  <1>7. CASE resharing_fails
    BY <1>7 DEF resharing_fails, resharing_cancelled, NodesInv
  <1>8. CASE keygen_begins
    BY <1>8 DEF keygen_begins, begin_keygen, NodesInv
  <1>9. CASE keygen_ends
    BY <1>9 DEF keygen_ends, keygen_cancelled, governanceVars, nodeVars, NodesInv
  <1>10. \/ UNCHANGED <<phase, parameters, prospective, node, prospective_node, drafts>>
         \/ \E b \in Accounts : conclude_node_migration(b)
         \/ \E b \in Accounts, kept \in SUBSET Participants : verify_tee(b, kept)
         \/ \E p \in Proposals, d \in NodesOf : vote_new_parameters(p, d)
         \/ \E p \in drafts : proposal_accepted(p)
         \/ resharing_ends \/ resharing_fails \/ keygen_begins \/ keygen_ends
    BY ZenonT(30) DEF GovernanceNext, allVars, governanceVars, committeeVars, nodeVars, propose_update, vote_update,
           remove_update_vote, vote_code_hash, remove_non_participant_update_votes, Tick,
           vote_foreign_chain_policy, register_backup_service, start_node_migration,
           cleanup_orphaned_node_migrations
  <1>11. QED
    BY <1>1, <1>2, <1>3, <1>4, <1>5, <1>6, <1>7, <1>8, <1>9, <1>10

\* The inductive invariant of these decisions.
THEOREM AlwaysGovernanceInv == GovernanceSpec => []GovernanceInv
  <1>1. GovernanceInit => GovernanceInv
    <2> SUFFICES ASSUME GovernanceInit PROVE GovernanceInv
      OBVIOUS
    <2>1. NodesInv
      BY GovernanceAssumption DEF GovernanceInit, CommitteeInit, NodesInv
    <2>2. QED
      BY <2>1, InitImages DEF GovernanceInv
  <1>2. GovernanceInv /\ [GovernanceNext]_allVars => GovernanceInv'
    BY NextImages, NextNodes DEF GovernanceInv
  <1>3. QED
    BY <1>1, <1>2, PTL DEF GovernanceSpec

-----------------------------------------------------------------------------
(* What it implies.                                                        *)

\* An image that was the newest one (AllowedDockerImageHashes) stays allowed
\* for tee_upgrade_deadline_duration after another was added, for any number of
\* images, votes and clean-ups; and the newest image is allowed.
THEOREM GracePeriodTheorem == GovernanceSpec => []GracePeriodKept
  <1>1. GovernanceInv => GracePeriodKept
    BY GracePeriodFromInv DEF GovernanceInv
  <1>2. QED
    BY <1>1, AlwaysGovernanceInv, PTL

\* vote_update executes an update only if `threshold` of the present
\* participants are for it, whoever voted before and left.
THEOREM UpdatesTheorem == GovernanceSpec => UpdatesApproved
  <1> DEFINE Approved == entries \ entries' # {} =>
         \E id \in entries, a \in Participants :
            Cardinality((VotersFor(vote_by_participant, id) \cup {a}) \cap Participants)
                >= parameters.threshold
  <1>1. [GovernanceNext]_allVars => [Approved]_allVars
    <2> SUFFICES ASSUME GovernanceNext, entries \ entries' # {}
                 PROVE  Approved
      OBVIOUS
    <2>1. ASSUME NEW a \in Accounts, NEW id \in entries, vote_update(a, id) PROVE Approved
      <3> DEFINE votes == WithVoteOf(vote_by_participant, a, id)
      <3>1. a \in Participants /\ Cardinality(valid_votes(votes, id)) >= parameters.threshold
        BY <2>1 DEF vote_update
      <3>2. DOMAIN votes = DOMAIN vote_by_participant \cup {a}
            /\ \A v \in DOMAIN votes : votes[v] = IF v = a THEN id ELSE vote_by_participant[v]
        BY DEF WithVoteOf
      <3> HIDE DEF votes
      <3>3. VotersFor(votes, id) = VotersFor(vote_by_participant, id) \cup {a}
        BY <3>2 DEF VotersFor
      <3>4. valid_votes(votes, id) = (VotersFor(vote_by_participant, id) \cup {a}) \cap Participants
        BY <3>3 DEF valid_votes
      <3>5. QED
        BY <3>1, <3>4
    <2>2. \/ \E a \in Accounts, id \in entries : vote_update(a, id)
          \/ entries \subseteq entries'
      BY DEF GovernanceNext, governanceVars, updateVars, propose_update, remove_update_vote, vote_code_hash,
             remove_non_participant_update_votes, Tick, vote_foreign_chain_policy, register_backup_service,
             start_node_migration, conclude_node_migration, cleanup_orphaned_node_migrations, verify_tee,
             vote_new_parameters, proposal_accepted, resharing_ends, resharing_fails, keygen_begins,
             keygen_ends
    <2>3. QED
      BY <2>1, <2>2
  <1>2. QED
    BY <1>1, PTL DEF GovernanceSpec, UpdatesApproved

\* What the third theorem says of one participant.
OwnCallsOnly(a) ==
    /\ a \in Participants /\ node'[a] # node[a] => conclude_node_migration(a)
    /\ a \in backup_services => a \in backup_services'
    /\ a \in DOMAIN ongoing_migrations \ DOMAIN ongoing_migrations' => conclude_node_migration(a)
    /\ a \in DOMAIN vote_by_participant \ DOMAIN vote_by_participant'
          => a \notin Participants \/ remove_update_vote(a) \/ entries' = {}

\* A step that leaves the records of participant a alone.
LEMMA NothingChanges ==
  ASSUME NEW a, a \in Participants => node'[a] = node[a], backup_services \subseteq backup_services',
         DOMAIN ongoing_migrations \subseteq DOMAIN ongoing_migrations',
         DOMAIN vote_by_participant \subseteq DOMAIN vote_by_participant'
  PROVE  OwnCallsOnly(a)
  BY DEF OwnCallsOnly

\* Who has voted when one more has ...
LEMMA MoreVotes ==
  ASSUME NEW votes, NEW v, NEW c
  PROVE  DOMAIN WithVoteOf(votes, v, c) = DOMAIN votes \cup {v}
  BY DEF WithVoteOf

\* ... and when votes are removed.
LEMMA FewerVotes ==
  ASSUME NEW votes, NEW gone
  PROVE  DOMAIN Without(votes, gone) = DOMAIN votes \ gone
  BY DEF Without

\* One step and one participant who stays.
LEMMA OwnCalls ==
  ASSUME GovernanceInv, GovernanceNext,
         NEW a \in (Participants \cup Members(prospective)) \cap
                   (Participants' \cup Members(prospective'))
  PROVE  OwnCallsOnly(a)
  <1>1. a \in Accounts
    BY MembersAreAccounts DEF GovernanceInv, NodesInv, Participants
  <1>2. ASSUME NEW b \in Accounts, NEW id \in entries, vote_update(b, id) PROVE OwnCallsOnly(a)
    <2>1. /\ UNCHANGED <<node, backup_services, ongoing_migrations>>
          /\ vote_by_participant' = WithVoteOf(vote_by_participant, b, id) \/ entries' = {}
      BY <1>2 DEF vote_update, nodeVars, recordVars
    <2>2. DOMAIN WithVoteOf(vote_by_participant, b, id) = DOMAIN vote_by_participant \cup {b}
      BY MoreVotes
    <2>3. DOMAIN vote_by_participant \subseteq DOMAIN vote_by_participant' \/ entries' = {}
      BY <2>1, <2>2
    <2>4. QED
      BY <2>1, <2>3 DEF OwnCallsOnly
  <1>3. ASSUME NEW b \in Accounts, remove_update_vote(b) PROVE OwnCallsOnly(a)
    <2>1. /\ UNCHANGED <<node, backup_services, ongoing_migrations>>
          /\ vote_by_participant' = Without(vote_by_participant, {b})
      BY <1>3 DEF remove_update_vote, nodeVars, recordVars
    <2>2. DOMAIN vote_by_participant' = DOMAIN vote_by_participant \ {b}
      BY <2>1, FewerVotes
    <2>3. a \in DOMAIN vote_by_participant \ DOMAIN vote_by_participant' => remove_update_vote(a)
      BY <1>3, <2>2
    <2>4. QED
      BY <2>1, <2>3 DEF OwnCallsOnly
  <1>4. CASE remove_non_participant_update_votes
    <2>1. /\ UNCHANGED <<node, backup_services, ongoing_migrations>>
          /\ vote_by_participant' = Without(vote_by_participant, Accounts \ Participants)
      BY <1>4 DEF remove_non_participant_update_votes, nodeVars, recordVars
    <2>2. DOMAIN vote_by_participant' = DOMAIN vote_by_participant \ (Accounts \ Participants)
      BY <2>1, FewerVotes
    <2>3. QED
      BY <2>1, <2>2 DEF OwnCallsOnly
  <1>5. ASSUME NEW b \in Accounts, NEW d \in NodesOf, start_node_migration(b, d) PROVE OwnCallsOnly(a)
    <2>1. /\ UNCHANGED <<node, backup_services, vote_by_participant>>
          /\ ongoing_migrations' = WithVoteOf(ongoing_migrations, b, d)
      BY <1>5 DEF start_node_migration, nodeVars, updateVars
    <2>2. DOMAIN WithVoteOf(ongoing_migrations, b, d) = DOMAIN ongoing_migrations \cup {b}
      BY MoreVotes
    <2>3. DOMAIN ongoing_migrations \subseteq DOMAIN ongoing_migrations'
      BY <2>1, <2>2
    <2>4. QED
      BY <2>1, <2>3, NothingChanges
  <1>6. ASSUME NEW b \in Accounts, conclude_node_migration(b) PROVE OwnCallsOnly(a)
    <2>1. /\ UNCHANGED <<backup_services, vote_by_participant>>
          /\ ongoing_migrations' = Without(ongoing_migrations, {b})
      BY <1>6 DEF conclude_node_migration, updateVars
    <2>2. DOMAIN ongoing_migrations' = DOMAIN ongoing_migrations \ {b}
      BY <2>1, FewerVotes
    <2>3. a # b => node'[a] = node[a]
      BY <1>1, <1>6, ConcludeKeeps DEF GovernanceInv
    <2>4. CASE a = b
      <3>1. conclude_node_migration(a)
        BY <1>6, <2>4
      <3>2. QED
        BY <2>1, <3>1 DEF OwnCallsOnly
    <2>5. CASE a # b
      <3>1. a \in DOMAIN ongoing_migrations => a \in DOMAIN ongoing_migrations'
        BY <2>2, <2>5
      <3>2. QED
        BY <2>1, <2>3, <2>5, <3>1 DEF OwnCallsOnly
    <2>6. QED
      BY <2>4, <2>5
  <1>7. CASE cleanup_orphaned_node_migrations
    <2> DEFINE gone == {b \in backup_services : ~ is_existing_or_prospective_participant(b)}
    <2>1. /\ UNCHANGED <<node, vote_by_participant>>
          /\ backup_services' = backup_services \ gone
          /\ ongoing_migrations' = Without(ongoing_migrations, gone)
      BY <1>7 DEF cleanup_orphaned_node_migrations, nodeVars, updateVars
    <2>2. a \notin gone
      BY DEF is_existing_or_prospective_participant
    <2> HIDE DEF gone
    <2>3. DOMAIN ongoing_migrations' = DOMAIN ongoing_migrations \ gone
      BY <2>1, FewerVotes
    <2>4. QED
      BY <2>1, <2>2, <2>3 DEF OwnCallsOnly
  <1>8. CASE resharing_ends
    <2>1. /\ UNCHANGED <<backup_services, ongoing_migrations, vote_by_participant, prospective>>
          /\ phase = "Resharing" /\ parameters' = prospective /\ node' = prospective_node
      BY <1>8 DEF resharing_ends, handed_over, updateVars
    <2>2. a \in Members(prospective)
      BY <2>1 DEF Participants
    <2>3. a \in Participants => node'[a] = node[a]
      BY <2>1, <2>2 DEF GovernanceInv, NodesInv
    <2>4. QED
      BY <2>1, <2>3, NothingChanges
  <1>9. ASSUME NEW b \in Accounts, register_backup_service(b) PROVE OwnCallsOnly(a)
    <2>1. /\ UNCHANGED <<node, ongoing_migrations, vote_by_participant>>
          /\ backup_services \subseteq backup_services'
      BY <1>9 DEF register_backup_service, updateVars, nodeVars
    <2>2. QED
      BY <2>1, NothingChanges
  <1>10. ASSUME UNCHANGED <<node, backup_services, ongoing_migrations, vote_by_participant>>
         PROVE  OwnCallsOnly(a)
    BY <1>10, NothingChanges
  <1>11. \/ UNCHANGED <<node, backup_services, ongoing_migrations, vote_by_participant>>
         \/ \E b \in Accounts, id \in entries : vote_update(b, id)
         \/ \E b \in Accounts, d \in NodesOf : start_node_migration(b, d)
         \/ \E b \in Accounts : remove_update_vote(b) \/ conclude_node_migration(b) \/ register_backup_service(b)
         \/ remove_non_participant_update_votes \/ cleanup_orphaned_node_migrations \/ resharing_ends
    BY DEF GovernanceNext, governanceVars, updateVars, recordVars, nodeVars, propose_update, vote_code_hash,
           Tick, vote_foreign_chain_policy, verify_tee, vote_new_parameters, proposal_accepted,
           resharing_fails, keygen_begins, keygen_ends
  <1>12. QED
    BY <1>2, <1>3, <1>4, <1>5, <1>6, <1>7, <1>8, <1>9, <1>10, <1>11

\* The node, backup service, migration and vote of a participant change by its
\* own calls only while it stays: neither a resharing that was voted on before
\* its migration nor cleanup_orphaned_node_migrations, however late, takes them
\* away.
THEOREM RecordsTheorem == GovernanceSpec => RecordsChangeByOwnCalls
  <1>1. GovernanceInv /\ [GovernanceNext]_allVars =>
          [\A a \in (Participants \cup Members(prospective)) \cap
                    (Participants' \cup Members(prospective')) : OwnCallsOnly(a)]_allVars
    BY OwnCalls
  <1>2. QED
    BY <1>1, AlwaysGovernanceInv, PTL DEF GovernanceSpec, RecordsChangeByOwnCalls, OwnCallsOnly
=============================================================================
