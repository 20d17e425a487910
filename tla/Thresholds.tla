----------------------------- MODULE Thresholds -----------------------------
(***************************************************************************)
(* Participants and threshold parameters of the MPC contract, and the      *)
(* checks that every proposal for new parameters has to pass.              *)
(*                                                                         *)
(* crates/contract/src/primitives/participants.rs                          *)
(* crates/contract/src/primitives/thresholds.rs                            *)
(*                                                                         *)
(* A list of (account, participant id, info) is a function from accounts   *)
(* to participant ids.  The info (URL and TLS key) is left out here: a     *)
(* proposal must repeat it unchanged for accounts that stay, so within     *)
(* this module an account has one info.  A function cannot list an account *)
(* twice; the check that rejects such lists is therefore implicit, the one *)
(* that rejects two accounts with one id is not.                           *)
(*                                                                         *)
(* Here and in the other modules a definition whose name ends in           *)
(* _<Something> is a faulty variant of the definition after it.  No        *)
(* specification uses it: it stands in for the original to show that a     *)
(* property notices such a fault.                                          *)
(***************************************************************************)
EXTENDS Integers, FiniteSets

CONSTANT Accounts   \* NEAR accounts that can call the contract

\* The parameters whose participants are the accounts in S.
ParametersOver(S) == [participants : [S -> Nat], next_id : Nat, threshold : Nat]

IsThresholdParameters(p) == \E S \in SUBSET Accounts : p \in ParametersOver(S)

Members(params) == DOMAIN params.participants
Ids(params)     == {params.participants[a] : a \in Members(params)}

MIN_THRESHOLD_ABSOLUTE == 2

\* The threshold rule: at most all shares, at least two, at least 60% of the
\* shares (rounded up).
validate_threshold(n_shares, k) ==
    /\ k <= n_shares
    /\ k >= MIN_THRESHOLD_ABSOLUTE
    /\ k >= (3 * n_shares + 4) \div 5

\* Participants::validate: next_id exceeds every id, ids are unique.
validate_participants(params) ==
    /\ \A a \in Members(params) : params.participants[a] < params.next_id
    /\ \A a, b \in Members(params) :
          params.participants[a] = params.participants[b] => a = b

validate(params) ==
    /\ validate_threshold(Cardinality(Members(params)), params.threshold)
    /\ validate_participants(params)

\* Accounts that the proposal adds to the current parameters.
NewMembers(current, proposal) == Members(proposal) \ Members(current)

IdsContinue_OfThoseWhoStay(current, proposal) ==
    \A a \in Members(proposal) \cap Members(current) :
        proposal.participants[a] = current.participants[a]

\* Accounts that stay keep their id, no newcomer takes an id in use, and the
\* ids of the newcomers are exactly the ones from the current next_id up to the
\* proposal's next_id.  Without a newcomer the proposal's next_id is not
\* compared with the current one.
IdsContinue(current, proposal) ==
    LET new == NewMembers(current, proposal)
    IN  /\ \A a \in Members(proposal) \cap Members(current) :
              proposal.participants[a] = current.participants[a]
        /\ \A a \in new : proposal.participants[a] \notin Ids(current)
        /\ new # {} =>
              {proposal.participants[a] : a \in new}
                  = current.next_id .. (proposal.next_id - 1)

\* At least `threshold` of the current participants stay.
EnoughStay(current, proposal) ==
    Cardinality(Members(proposal) \cap Members(current)) >= current.threshold

validate_incoming_proposal_Unvalidated(current, proposal) ==
    IdsContinue(current, proposal) /\ EnoughStay(current, proposal)

validate_incoming_proposal(current, proposal) ==
    /\ validate(proposal)
    /\ IdsContinue(current, proposal)
    /\ EnoughStay(current, proposal)

RestrictTo_Renumbered(params, kept) ==
    [params EXCEPT
        !.participants = [a \in Members(params) \cap kept |-> params.participants[a]],
        !.next_id = Cardinality(Members(params) \cap kept)]

\* Participants::init on the members of `params` that are in `kept`.
RestrictTo(params, kept) ==
    [params EXCEPT !.participants =
        [a \in Members(params) \cap kept |-> params.participants[a]]]

\* The account with the lowest participant id leads every key event.
Leader(params) ==
    CHOOSE a \in Members(params) :
        \A b \in Members(params) : params.participants[a] <= params.participants[b]
=============================================================================
