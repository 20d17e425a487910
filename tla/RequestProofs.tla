--------------------------- MODULE RequestProofs ---------------------------
(***************************************************************************)
(* Proofs about user requests, for every choice of the constants: entries  *)
(* of the pending maps do not leak, a request that is not repeated stays   *)
(* answerable, and answers verify under the key that the user saw.         *)
(*                                                                         *)
(* The inductive invariant is RequestInv, beside KeyInv and RegistryInv of  *)
(* the contract.  LoneRequestAnswerable is not inductive: the callback of   *)
(* an expired promise removes the entry of its request, whosever it is, so  *)
(* one has to know that unresolved promises of one request are marked       *)
(* (TwinsOverlap).  AnsweredUnderRequestedKey needs that the key which the  *)
(* user saw is still the domain's key (KeysSeenInForce).                    *)
(***************************************************************************)
EXTENDS Requests, ContractProofs, SequenceTheorems, FiniteSetTheorems

YieldRecords ==
    [request : UserRequests, state : {"waiting", "resumed", "expired", "answered", "failed"},
     overlaps : BOOLEAN, key : PublicKeys, response : SUBSET PublicKeys]

RequestTypeOK ==
    /\ yields \in Seq(YieldRecords)
    /\ DOMAIN pending \subseteq UserRequests
    /\ \A r \in DOMAIN pending : pending[r] \in 1 .. Len(yields)

\* Two unresolved promises of one request: both are marked.
TwinsOverlap ==
    \A d, e \in 1 .. Len(yields) :
        d # e /\ Unresolved(d) /\ Unresolved(e) /\ yields[d].request = yields[e].request
            => yields[d].overlaps

\* The domain of a request still has the key that the user saw.
KeyInForce(domain_id, key) ==
    \E i \in 1 .. Len(keyset.domains) :
        keyset.domains[i].domain_id = domain_id /\ keyset.domains[i].key = key

KeysSeenInForce ==
    \A d \in 1 .. Len(yields) : KeyInForce(yields[d].request.domain_id, yields[d].key)

\* A promise that was resumed was resumed with a response under that key.
ResponsesVerified ==
    \A d \in 1 .. Len(yields) :
        yields[d].state \in {"resumed", "answered"} /\ yields[d].request.kind # "CKD" =>
            yields[d].response = {yields[d].key}

RequestInv ==
    /\ RequestTypeOK
    /\ PendingEntriesLive
    /\ LoneRequestAnswerable
    /\ TwinsOverlap
    /\ KeysSeenInForce
    /\ ResponsesVerified

ContractInv == KeyInv /\ TeeTypeOK /\ RegistryInv

-----------------------------------------------------------------------------
\* The promises are numbered from 1.
LEMMA YieldNumbers ==
  ASSUME RequestTypeOK
  PROVE  /\ Len(yields) \in Nat
         /\ DOMAIN yields = 1 .. Len(yields)
         /\ \A d \in 1 .. Len(yields) : yields[d] \in YieldRecords
  BY DEF RequestTypeOK

\* At most one key is in force for a domain, and it is what public_key finds:
\* ids ascend in the registry, which the keyset follows (Keyset::public_key).
LEMMA PublicKeyInForce ==
  ASSUME KeyInv, RegistryInv, NEW id, NEW key, KeyInForce(id, key)
  PROVE  public_key(id) = key
  <1> DEFINE ks == keyset.domains
  <1>1. /\ Len(ks) \in Nat /\ Len(domains) \in Nat /\ Len(ks) <= Len(domains)
        /\ \A i \in 1 .. Len(domains) : domains[i] \in Nat
        /\ \A i \in 1 .. Len(ks) : ks[i].domain_id = domains[i]
    BY DEF KeyInv, ProtocolTypeOK, KeysetMatchesDomains
  <1>2. ASSUME NEW i \in 1 .. Len(ks), NEW j \in 1 .. Len(ks), ks[i].domain_id = ks[j].domain_id
        PROVE  i = j
    BY <1>1, <1>2, SMTT(30) DEF RegistryInv
  <1>3. PICK i \in 1 .. Len(ks) : ks[i].domain_id = id /\ ks[i].key = key
    BY DEF KeyInForce
  <1>4. \A k \in {ks[j] : j \in 1 .. Len(ks)} : k.domain_id = id => k = ks[i]
    BY <1>2, <1>3
  <1>5. QED
    BY <1>3, <1>4 DEF public_key

\* A domain of the registry has a key when requests are taken.
LEMMA RegisteredHasKey ==
  ASSUME KeyInv, RegistryInv, phase \in {"Running", "Resharing"}, NEW id \in DomainIdSet
  PROVE  KeyInForce(id, public_key(id)) /\ public_key(id) \in PublicKeys
  <1>1. PICK i \in 1 .. Len(domains) : domains[i] = id
    BY DEF DomainIdSet
  <1>2. /\ i \in 1 .. Len(keyset.domains) /\ keyset.domains[i].domain_id = id
        /\ keyset.domains[i] \in KeysForDomain
    BY <1>1 DEF KeyInv, ProtocolTypeOK, KeysetMatchesDomains
  <1>3. KeyInForce(id, keyset.domains[i].key)
    BY <1>2 DEF KeyInForce
  <1>4. QED
    BY <1>2, <1>3, PublicKeyInForce DEF KeysForDomain

\* A key that is in force stays so: no step changes or drops one.
LEMMA KeyStaysInForce ==
  ASSUME KeyInv, [Next]_vars, NEW id, NEW key, KeyInForce(id, key)
  PROVE  KeyInForce(id, key)'
  <1>1. KeepsPublicKeys
    <2>1. CASE vars' = vars
      BY <2>1, SameKeysetKeepsKeys DEF vars, protocolVars, KeepsKeys
    <2>2. QED
      BY <2>1, NextKeepsKeys DEF KeepsKeys
  <1>2. QED
    BY <1>1 DEF KeepsPublicKeys, KeyInForce

-----------------------------------------------------------------------------
(* The steps.                                                              *)

\* Steps that leave requests alone: those of the contract, and votes for a
\* policy.
LEMMA OtherStepsKeep ==
  ASSUME RequestInv, KeyInv, [Next]_vars, UNCHANGED <<pending, yields>>
  PROVE  RequestInv'
  <1>1. KeysSeenInForce'
    <2> SUFFICES ASSUME NEW d \in 1 .. Len(yields)
                 PROVE  KeyInForce(yields[d].request.domain_id, yields[d].key)'
      BY DEF KeysSeenInForce
    <2>1. KeyInForce(yields[d].request.domain_id, yields[d].key)
      BY DEF RequestInv, KeysSeenInForce
    <2> DEFINE id == yields[d].request.domain_id
               key == yields[d].key
    <2>2. id' = id /\ key' = key
      OBVIOUS
    <2> HIDE DEF id, key
    <2>3. \E i \in 1 .. Len(keyset'.domains) :
             keyset'.domains[i].domain_id = id /\ keyset'.domains[i].key = key
      BY <2>1, KeyStaysInForce, SMTT(30) DEF KeyInForce, id, key
    <2>4. QED
      BY <2>2, <2>3 DEF KeyInForce, id, key
  <1>2. /\ RequestTypeOK' /\ PendingEntriesLive' /\ LoneRequestAnswerable'
        /\ TwinsOverlap' /\ ResponsesVerified'
    BY DEF RequestInv, RequestTypeOK, PendingEntriesLive, LoneRequestAnswerable, TwinsOverlap,
           ResponsesVerified, Unresolved
  <1>3. QED
    BY <1>1, <1>2 DEF RequestInv

\* A new promise takes the entry of its request, and marks the unresolved
\* promises that the request already has.
LEMMA SignKeeps ==
  ASSUME RequestInv, KeyInv, RegistryInv, NEW r \in UserRequests, sign(r)
  PROVE  RequestInv'
  <1> DEFINE n     == Len(yields)
             twins == {t \in DOMAIN yields : yields[t].request = r /\ Unresolved(t)}
             Marked(t) == IF t \in twins THEN [yields[t] EXCEPT !.overlaps = TRUE] ELSE yields[t]
             olds  == [t \in DOMAIN yields |-> Marked(t)]
             new   == [request |-> r, state |-> "waiting", overlaps |-> twins # {},
                       key |-> public_key(r.domain_id), response |-> {}]
  <1>1. /\ n \in Nat /\ DOMAIN yields = 1 .. n
        /\ \A d \in 1 .. n : yields[d] \in YieldRecords
    BY YieldNumbers DEF RequestInv
  <1>2. /\ KeyInForce(r.domain_id, public_key(r.domain_id))
        /\ public_key(r.domain_id) \in PublicKeys
    BY RegisteredHasKey DEF sign
  <1>3. new \in YieldRecords
    BY <1>2 DEF YieldRecords
  <1>4. \A t \in 1 .. n : Marked(t) \in YieldRecords
    BY <1>1 DEF YieldRecords
  <1>5. olds \in Seq(YieldRecords) /\ Len(olds) = n
    <2>1. olds \in [1 .. n -> YieldRecords]
      BY <1>1, <1>4
    <2>2. QED
      BY <1>1, <2>1
  <1>6. yields' = Append(olds, new)
    BY DEF sign
  <1>7. /\ yields' \in Seq(YieldRecords) /\ Len(yields') = n + 1
        /\ yields'[n + 1] = new
        /\ \A t \in 1 .. n : yields'[t] = Marked(t)
    <2> HIDE DEF new, Marked
    <2>1. \A t \in 1 .. n : olds[t] = Marked(t)
      BY <1>1
    <2> HIDE DEF olds
    <2>2. QED
      BY <1>1, <1>3, <1>5, <1>6, <2>1
  <1>8. /\ \A t \in 1 .. n : /\ yields'[t].request = yields[t].request
                             /\ yields'[t].state = yields[t].state
                             /\ yields'[t].key = yields[t].key
                             /\ yields'[t].response = yields[t].response
                             /\ yields'[t].overlaps = (yields[t].overlaps \/ t \in twins)
        /\ yields'[n + 1].request = r /\ yields'[n + 1].state = "waiting"
        /\ yields'[n + 1].overlaps = (twins # {})
        /\ yields'[n + 1].key = public_key(r.domain_id)
    <2>1. ASSUME NEW t \in 1 .. n
          PROVE  /\ Marked(t).request = yields[t].request
                 /\ Marked(t).state = yields[t].state
                 /\ Marked(t).key = yields[t].key
                 /\ Marked(t).response = yields[t].response
                 /\ Marked(t).overlaps = (yields[t].overlaps \/ t \in twins)
      BY <1>1 DEF YieldRecords
    <2>2. /\ new.request = r /\ new.state = "waiting" /\ new.overlaps = (twins # {})
          /\ new.key = public_key(r.domain_id)
      OBVIOUS
    <2> HIDE DEF Marked, new
    <2>3. QED
      BY <1>7, <2>1, <2>2
  <1>9. /\ DOMAIN pending' = DOMAIN pending \cup {r}
        /\ pending'[r] = n + 1
        /\ \A q \in DOMAIN pending : q # r => pending'[q] = pending[q]
    BY DEF sign
  <1>10. /\ \A t \in twins : t \in 1 .. n /\ yields[t].request = r /\ Unresolved(t)
         /\ \A t \in 1 .. n : yields[t].request = r /\ Unresolved(t) => t \in twins
    BY <1>1
  <1>11. \A t \in 1 .. n : Unresolved(t)' <=> Unresolved(t)
    BY <1>8 DEF Unresolved
  <1>12. UNCHANGED keyset
    BY DEF sign, vars, protocolVars
  <1>13. \A d \in 1 .. (n + 1) : d \in 1 .. n \/ d = n + 1
    BY <1>1
  <1> HIDE DEF n, twins, Marked, olds, new
  <1>14. RequestTypeOK'
    BY <1>1, <1>7, <1>9 DEF RequestInv, RequestTypeOK, n
  <1>15. PendingEntriesLive'
    <2> SUFFICES ASSUME NEW q \in DOMAIN pending'
                 PROVE  yields'[pending'[q]].request = q /\ Unresolved(pending[q])'
      BY DEF PendingEntriesLive
    <2>1. CASE q = r
      BY <2>1, <1>8, <1>9 DEF Unresolved
    <2>2. CASE q # r
      <3>1. q \in DOMAIN pending /\ pending'[q] = pending[q] /\ pending[q] \in 1 .. n
        BY <2>2, <1>9 DEF RequestInv, RequestTypeOK, n
      <3>2. yields[pending[q]].request = q /\ Unresolved(pending[q])
        BY <3>1 DEF RequestInv, PendingEntriesLive
      <3>3. QED
        BY <3>1, <3>2, <1>8, <1>11 DEF Unresolved
    <2>3. QED
      BY <2>1, <2>2
  <1>16. LoneRequestAnswerable'
    <2> SUFFICES ASSUME NEW d \in 1 .. (n + 1), yields'[d].state = "waiting", ~ yields'[d].overlaps
                 PROVE  yields'[d].request \in DOMAIN pending' /\ pending'[yields'[d].request] = d
      BY <1>7 DEF LoneRequestAnswerable
    <2>1. CASE d = n + 1
      BY <2>1, <1>8, <1>9
    <2>2. CASE d \in 1 .. n
      <3>1. yields[d].state = "waiting" /\ ~ yields[d].overlaps /\ d \notin twins
        BY <2>2, <1>8
      <3>2. yields[d].request \in DOMAIN pending /\ pending[yields[d].request] = d
        BY <2>2, <3>1, <1>1 DEF RequestInv, LoneRequestAnswerable
      <3>3. yields[d].request # r
        BY <2>2, <3>1, <1>10 DEF Unresolved
      <3>4. QED
        BY <2>2, <3>2, <3>3, <1>8, <1>9
    <2>3. QED
      BY <2>1, <2>2, <1>13
  <1>17. TwinsOverlap'
    <2> SUFFICES ASSUME NEW d \in 1 .. (n + 1), NEW e \in 1 .. (n + 1), d # e,
                        Unresolved(d)', Unresolved(e)', yields'[d].request = yields'[e].request
                 PROVE  yields'[d].overlaps
      BY <1>7 DEF TwinsOverlap
    <2>1. CASE d \in 1 .. n /\ e \in 1 .. n
      BY <2>1, <1>8, <1>11 DEF RequestInv, TwinsOverlap, n
    <2>2. CASE d \in 1 .. n /\ e = n + 1
      BY <2>2, <1>8, <1>10, <1>11
    <2>3. CASE d = n + 1 /\ e \in 1 .. n
      BY <2>3, <1>8, <1>10, <1>11
    <2>4. QED
      BY <2>1, <2>2, <2>3, <1>13
  <1>18. KeysSeenInForce'
    <2> SUFFICES ASSUME NEW d \in 1 .. (n + 1)
                 PROVE  KeyInForce(yields[d].request.domain_id, yields[d].key)'
      BY <1>7 DEF KeysSeenInForce
    <2>1. CASE d = n + 1
      BY <2>1, <1>2, <1>8, <1>12 DEF KeyInForce
    <2>2. CASE d \in 1 .. n
      BY <2>2, <1>8, <1>12 DEF RequestInv, KeysSeenInForce, KeyInForce, n
    <2>3. QED
      BY <2>1, <2>2, <1>13
  <1>19. ResponsesVerified'
    BY <1>7, <1>8, <1>13 DEF RequestInv, ResponsesVerified, n
  <1>20. QED
    BY <1>14, <1>15, <1>16, <1>17, <1>18, <1>19 DEF RequestInv

\* What a step that gives one promise another state does to the others.
LEMMA OneYieldChanges ==
  ASSUME RequestTypeOK, NEW d \in 1 .. Len(yields), NEW new \in YieldRecords,
         yields' = [yields EXCEPT ![d] = new]
  PROVE  /\ yields' \in Seq(YieldRecords) /\ Len(yields') = Len(yields)
         /\ \A t \in 1 .. Len(yields) : t # d => yields'[t] = yields[t]
         /\ yields'[d] = new
  BY YieldNumbers DEF RequestTypeOK

\* A response resolves the promise that its entry names, or comes too late
\* for it.
LEMMA RespondKeeps ==
  ASSUME RequestInv, KeyInv, RegistryInv, NEW a, NEW r \in UserRequests, NEW k \in PublicKeys,
         respond(a, r, k)
  PROVE  RequestInv'
  <1> DEFINE d == pending[r]
  <1>1. /\ d \in 1 .. Len(yields) /\ yields[d].request = r /\ Unresolved(d)
        /\ Len(yields) \in Nat /\ r \in DOMAIN pending
    BY YieldNumbers DEF RequestInv, RequestTypeOK, PendingEntriesLive, respond
  <1>2. /\ DOMAIN pending' = DOMAIN pending \ {r}
        /\ \A q \in DOMAIN pending' : pending'[q] = pending[q]
        /\ UNCHANGED keyset
    BY DEF respond, Without, vars, protocolVars
  <1>3. ASSUME NEW q \in DOMAIN pending' PROVE pending[q] # d
    BY <1>1, <1>2 DEF RequestInv, PendingEntriesLive
  <1>4. CASE yields[d].state = "waiting"
    <2>1. yields' = [yields EXCEPT ![d].state = "resumed", ![d].response = {k}]
      BY <1>4 DEF respond
    <2>2. /\ yields' \in Seq(YieldRecords) /\ Len(yields') = Len(yields)
          /\ \A t \in 1 .. Len(yields) : t # d => yields'[t] = yields[t]
          /\ yields'[d].request = yields[d].request /\ yields'[d].key = yields[d].key
          /\ yields'[d].overlaps = yields[d].overlaps
          /\ yields'[d].state = "resumed" /\ yields'[d].response = {k}
      <3> DEFINE new == [yields[d] EXCEPT !.state = "resumed", !.response = {k}]
      <3>1. yields \in Seq(YieldRecords) /\ yields[d] \in YieldRecords
        BY <1>1 DEF RequestInv, RequestTypeOK
      <3>2. /\ new \in YieldRecords /\ new.state = "resumed" /\ new.response = {k}
            /\ new.request = yields[d].request /\ new.key = yields[d].key
            /\ new.overlaps = yields[d].overlaps
        BY <3>1 DEF YieldRecords
      <3> HIDE DEF d
      <3>3. yields' = [yields EXCEPT ![d] = new]
        BY <1>1, <2>1, <3>1
      <3> HIDE DEF new
      <3>4. QED
        BY <1>1, <3>2, <3>3, OneYieldChanges DEF RequestInv
    <2>3. r.kind # "CKD" => k = yields[d].key
      <3>1. KeyInForce(r.domain_id, yields[d].key)
        BY <1>1 DEF RequestInv, KeysSeenInForce
      <3>2. QED
        BY <3>1, PublicKeyInForce DEF respond, Verifies
    <2> HIDE DEF d
    <2>4. RequestTypeOK' /\ PendingEntriesLive'
      BY <1>1, <1>2, <1>3, <2>2 DEF RequestInv, RequestTypeOK, PendingEntriesLive, Unresolved
    <2>5. LoneRequestAnswerable'
      <3> SUFFICES ASSUME NEW t \in 1 .. Len(yields), yields'[t].state = "waiting",
                          ~ yields'[t].overlaps
                   PROVE  yields'[t].request \in DOMAIN pending' /\ pending'[yields'[t].request] = t
        BY <2>2 DEF LoneRequestAnswerable
      <3>1. t # d /\ yields'[t] = yields[t]
        BY <2>2
      <3>2. yields[t].request \in DOMAIN pending /\ pending[yields[t].request] = t
        BY <3>1, YieldNumbers DEF RequestInv, LoneRequestAnswerable
      <3>3. yields[t].request # r
        BY <3>1, <3>2 DEF d
      <3>4. QED
        BY <1>2, <3>1, <3>2, <3>3
    <2>6. TwinsOverlap'
      BY <1>1, <2>2 DEF RequestInv, TwinsOverlap, Unresolved
    <2>7. KeysSeenInForce'
      <3>1. \A t \in 1 .. Len(yields) : /\ yields'[t].request = yields[t].request
                                        /\ yields'[t].key = yields[t].key
        BY <2>2
      <3>2. QED
        BY <1>2, <2>2, <3>1 DEF RequestInv, KeysSeenInForce, KeyInForce
    <2>8. ResponsesVerified'
      BY <1>1, <2>2, <2>3 DEF RequestInv, ResponsesVerified
    <2>9. QED
      BY <2>4, <2>5, <2>6, <2>7, <2>8 DEF RequestInv
  <1>5. CASE yields[d].state # "waiting"
    <2>1. UNCHANGED yields
      BY <1>5 DEF respond
    <2>2. LoneRequestAnswerable'
      <3> SUFFICES ASSUME NEW t \in DOMAIN yields, yields[t].state = "waiting", ~ yields[t].overlaps
                   PROVE  yields[t].request \in DOMAIN pending' /\ pending'[yields[t].request] = t
        BY <2>1 DEF LoneRequestAnswerable
      <3>1. yields[t].request \in DOMAIN pending /\ pending[yields[t].request] = t
        BY DEF RequestInv, LoneRequestAnswerable
      <3>2. QED
        BY <1>2, <1>5, <3>1
    <2>3. RequestTypeOK' /\ PendingEntriesLive' /\ TwinsOverlap' /\ KeysSeenInForce'
             /\ ResponsesVerified'
      BY <1>2, <2>1 DEF RequestInv, RequestTypeOK, PendingEntriesLive, TwinsOverlap, KeysSeenInForce,
                        KeyInForce, ResponsesVerified, Unresolved
    <2>4. QED
      BY <2>2, <2>3 DEF RequestInv
  <1>6. QED
    BY <1>4, <1>5

\* A promise times out: its entry stays until its callback runs.
LEMMA TimeOutKeeps ==
  ASSUME RequestInv, NEW d \in DOMAIN yields, YieldTimesOut(d)
  PROVE  RequestInv'
  <1>1. d \in 1 .. Len(yields) /\ Len(yields) \in Nat /\ yields[d] \in YieldRecords
    BY YieldNumbers DEF RequestInv
  <1> DEFINE new == [yields[d] EXCEPT !.state = "expired"]
  <1>2. /\ new \in YieldRecords /\ new.state = "expired" /\ new.response = yields[d].response
        /\ new.request = yields[d].request /\ new.key = yields[d].key
        /\ new.overlaps = yields[d].overlaps
    BY <1>1 DEF YieldRecords
  <1>3. yields' = [yields EXCEPT ![d] = new]
    BY DEF YieldTimesOut
  <1> HIDE DEF new
  <1>4. /\ yields' \in Seq(YieldRecords) /\ Len(yields') = Len(yields)
        /\ \A t \in 1 .. Len(yields) : t # d => yields'[t] = yields[t]
        /\ yields'[d].request = yields[d].request /\ yields'[d].key = yields[d].key
        /\ yields'[d].overlaps = yields[d].overlaps
        /\ yields'[d].state = "expired"
    BY <1>1, <1>2, <1>3, OneYieldChanges DEF RequestInv
  <1>5. yields[d].state = "waiting" /\ UNCHANGED <<pending, keyset>>
    BY DEF YieldTimesOut, vars, protocolVars
  <1>6. RequestTypeOK' /\ PendingEntriesLive'
    BY <1>1, <1>4, <1>5 DEF RequestInv, RequestTypeOK, PendingEntriesLive, Unresolved
  <1>7. LoneRequestAnswerable'
    BY <1>1, <1>4, <1>5, YieldNumbers DEF RequestInv, LoneRequestAnswerable
  <1>8. TwinsOverlap'
    BY <1>1, <1>4, <1>5 DEF RequestInv, TwinsOverlap, Unresolved
  <1>9. KeysSeenInForce' /\ ResponsesVerified'
    BY <1>1, <1>4, <1>5, SMTT(30) DEF RequestInv, KeysSeenInForce, KeyInForce, ResponsesVerified
  <1>10. QED
    BY <1>6, <1>7, <1>8, <1>9 DEF RequestInv

\* The callback of a promise: after a response the entry is gone already; after
\* a time-out the entry goes, and whoever loses it was marked.
LEMMA CallbackKeeps ==
  ASSUME RequestInv, NEW d \in DOMAIN yields, return_and_clean_state_on_success(d)
  PROVE  RequestInv'
  <1>1. d \in 1 .. Len(yields) /\ Len(yields) \in Nat /\ yields[d] \in YieldRecords
    BY YieldNumbers DEF RequestInv
  <1>2. UNCHANGED keyset
    BY DEF return_and_clean_state_on_success, vars, protocolVars
  <1>3. CASE yields[d].state = "resumed"
    <2> DEFINE new == [yields[d] EXCEPT !.state = "answered"]
    <2>1. /\ new \in YieldRecords /\ new.state = "answered" /\ new.response = yields[d].response
          /\ new.request = yields[d].request /\ new.key = yields[d].key
          /\ new.overlaps = yields[d].overlaps
      BY <1>1 DEF YieldRecords
    <2>2. yields' = [yields EXCEPT ![d] = new] /\ UNCHANGED pending
      BY <1>3 DEF return_and_clean_state_on_success, CleanState
    <2> HIDE DEF new
    <2>3. /\ yields' \in Seq(YieldRecords) /\ Len(yields') = Len(yields)
          /\ \A t \in 1 .. Len(yields) : t # d => yields'[t] = yields[t]
          /\ yields'[d].request = yields[d].request /\ yields'[d].key = yields[d].key
          /\ yields'[d].response = yields[d].response
          /\ yields'[d].state = "answered"
      BY <1>1, <2>1, <2>2, OneYieldChanges DEF RequestInv
    <2>4. RequestTypeOK' /\ PendingEntriesLive'
      BY <1>1, <1>3, <2>2, <2>3 DEF RequestInv, RequestTypeOK, PendingEntriesLive, Unresolved
    <2>5. LoneRequestAnswerable'
      BY <1>1, <2>2, <2>3, YieldNumbers DEF RequestInv, LoneRequestAnswerable
    <2>6. TwinsOverlap'
      BY <1>1, <2>3 DEF RequestInv, TwinsOverlap, Unresolved
    <2>7. KeysSeenInForce'
      <3>1. \A t \in 1 .. Len(yields) : /\ yields'[t].request = yields[t].request
                                        /\ yields'[t].key = yields[t].key
        BY <2>3
      <3>2. QED
        BY <1>2, <2>3, <3>1, ZenonT(30) DEF RequestInv, KeysSeenInForce, KeyInForce
    <2>8. ResponsesVerified'
      BY <1>1, <1>3, <2>3 DEF RequestInv, ResponsesVerified
    <2>9. QED
      BY <2>4, <2>5, <2>6, <2>7, <2>8 DEF RequestInv
  <1>4. CASE yields[d].state = "expired"
    <2> DEFINE new == [yields[d] EXCEPT !.state = "failed"]
               r   == yields[d].request
    <2>1. /\ new \in YieldRecords /\ new.state = "failed" /\ new.response = yields[d].response
          /\ new.request = r /\ new.key = yields[d].key
          /\ new.overlaps = yields[d].overlaps
      BY <1>1 DEF YieldRecords
    <2>2. /\ yields' = [yields EXCEPT ![d] = new]
          /\ DOMAIN pending' = DOMAIN pending \ {r}
          /\ \A q \in DOMAIN pending' : pending'[q] = pending[q]
      BY <1>4 DEF return_and_clean_state_on_success, CleanState, Without
    <2> HIDE DEF new
    <2>3. /\ yields' \in Seq(YieldRecords) /\ Len(yields') = Len(yields)
          /\ \A t \in 1 .. Len(yields) : t # d => yields'[t] = yields[t]
          /\ yields'[d].request = yields[d].request /\ yields'[d].key = yields[d].key
          /\ yields'[d].state = "failed"
      BY <1>1, <2>1, <2>2, OneYieldChanges DEF RequestInv
    <2>4. \A q \in DOMAIN pending' : pending[q] # d
      BY <2>2 DEF RequestInv, PendingEntriesLive
    <2>5. RequestTypeOK' /\ PendingEntriesLive'
      BY <1>1, <2>2, <2>3, <2>4 DEF RequestInv, RequestTypeOK, PendingEntriesLive, Unresolved
    <2>6. LoneRequestAnswerable'
      <3> SUFFICES ASSUME NEW t \in 1 .. Len(yields), yields'[t].state = "waiting",
                          ~ yields'[t].overlaps
                   PROVE  yields'[t].request \in DOMAIN pending' /\ pending'[yields'[t].request] = t
        BY <2>3 DEF LoneRequestAnswerable
      <3>1. t # d /\ yields'[t] = yields[t]
        BY <2>3
      <3>2. yields[t].request \in DOMAIN pending /\ pending[yields[t].request] = t
        BY <3>1, YieldNumbers DEF RequestInv, LoneRequestAnswerable
      <3>3. yields[t].request # r
        BY <1>1, <1>4, <3>1 DEF RequestInv, TwinsOverlap, Unresolved
      <3>4. QED
        BY <2>2, <3>1, <3>2, <3>3
    <2>7. TwinsOverlap'
      BY <1>1, <2>3 DEF RequestInv, TwinsOverlap, Unresolved
    <2>8. KeysSeenInForce'
      <3>1. \A t \in 1 .. Len(yields) : /\ yields'[t].request = yields[t].request
                                        /\ yields'[t].key = yields[t].key
        BY <2>3
      <3>2. QED
        BY <1>2, <2>3, <3>1 DEF RequestInv, KeysSeenInForce, KeyInForce
    <2>9. ResponsesVerified'
      BY <1>1, <2>3 DEF RequestInv, ResponsesVerified
    <2>10. QED
      BY <2>5, <2>6, <2>7, <2>8, <2>9 DEF RequestInv
  <1>5. QED
    BY <1>3, <1>4 DEF return_and_clean_state_on_success

-----------------------------------------------------------------------------
\* Whatever happens to requests, the contract takes a step of its own or none.
LEMMA RequestStepIsStep == [RequestsNext]_allVars => [Next]_vars
  BY DEF RequestsNext, allVars, sign, respond, YieldTimesOut,
         return_and_clean_state_on_success, vote_foreign_chain_policy

\* Every step keeps the invariant.
LEMMA NextRequestInv ==
  ContractInv /\ RequestInv /\ [RequestsNext]_allVars => (ContractInv /\ RequestInv)'
  <1> SUFFICES ASSUME ContractInv, RequestInv, [RequestsNext]_allVars
               PROVE  (ContractInv /\ RequestInv)'
    OBVIOUS
  <1>1. [Next]_vars
    BY RequestStepIsStep
  <1>2. ContractInv'
    BY <1>1, NextKeyInv, NextTeeType, NextRegistryStep, RegistryStepSafe
       DEF ContractInv, TypeOK, KeyInv, ProtocolTypeOK
  <1>3. RequestInv'
    <2>1. CASE UNCHANGED <<pending, yields>>
      BY <2>1, <1>1, OtherStepsKeep DEF ContractInv
    <2>2. ASSUME NEW r \in UserRequests, sign(r) PROVE RequestInv'
      BY <2>2, SignKeeps DEF ContractInv
    <2>3. ASSUME NEW a \in Accounts, NEW r \in UserRequests, NEW k \in PublicKeys, respond(a, r, k)
          PROVE  RequestInv'
      BY <2>3, RespondKeeps DEF ContractInv
    <2>4. ASSUME NEW d \in DOMAIN yields, YieldTimesOut(d) PROVE RequestInv'
      BY <2>4, TimeOutKeeps
    <2>5. ASSUME NEW d \in DOMAIN yields, return_and_clean_state_on_success(d) PROVE RequestInv'
      BY <2>5, CallbackKeeps
    <2>6. ASSUME NEW a \in Accounts, NEW p \in Policies, vote_foreign_chain_policy(a, p)
          PROVE  RequestInv'
      BY <2>6, <2>1 DEF vote_foreign_chain_policy
    <2>7. QED
      BY <2>1, <2>2, <2>3, <2>4, <2>5, <2>6 DEF RequestsNext, allVars, requestVars
  <1>4. QED
    BY <1>2, <1>3

\* The invariant holds before the first request, and throughout.
LEMMA AlwaysRequestInv == RequestsSpec => [](ContractInv /\ RequestInv)
  <1>1. RequestsInit => ContractInv /\ RequestInv
    <2> SUFFICES ASSUME RequestsInit PROVE ContractInv /\ RequestInv
      OBVIOUS
    <2>1. ContractInv
      BY InitKeyInv, InitialAssumption DEF RequestsInit, ContractInv, Init, RegistryInv
    <2>2. yields = <<>> /\ pending = <<>>
      BY DEF RequestsInit
    <2>3. QED
      BY <2>1, <2>2 DEF RequestInv, RequestTypeOK, PendingEntriesLive, LoneRequestAnswerable,
                        TwinsOverlap, KeysSeenInForce, ResponsesVerified
  <1>2. QED
    BY <1>1, NextRequestInv, PTL DEF RequestsSpec

\* Entries of the pending maps never leak: each names a promise of its request
\* that a response or a time-out will still resolve (lib.rs respond,
\* return_*_on_success).
THEOREM PendingTheorem == RequestsSpec => []PendingEntriesLive
  <1>1. RequestInv => PendingEntriesLive
    BY DEF RequestInv
  <1>2. QED
    BY <1>1, AlwaysRequestInv, PTL

\* A request that is not repeated while it is open always finds its entry when
\* the nodes respond, whatever callbacks of earlier promises do (lib.rs sign,
\* return_*_on_success).
THEOREM AnswerableTheorem == RequestsSpec => []LoneRequestAnswerable
  <1>1. RequestInv => LoneRequestAnswerable
    BY DEF RequestInv
  <1>2. QED
    BY <1>1, AlwaysRequestInv, PTL

\* Every answer verifies under the key that the domain had when the request was
\* made, although keys are generated and reshared meanwhile (lib.rs respond).
THEOREM AnswersTheorem == RequestsSpec => []AnsweredUnderRequestedKey
  <1>1. RequestInv => AnsweredUnderRequestedKey
    BY YieldNumbers DEF RequestInv, ResponsesVerified, AnsweredUnderRequestedKey
  <1>2. QED
    BY <1>1, AlwaysRequestInv, PTL
=============================================================================
