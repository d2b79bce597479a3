------------------------------ MODULE NameBook ------------------------------
(***************************************************************************)
(* Names registered by commit and reveal.  A digest hides a name, a salt   *)
(* and an account; the hash is injective, so it is modelled by the triple. *)
(* Anybody may commit any digest, one copied from somebody else included.  *)
(***************************************************************************)
EXTENDS Protocol

CONSTANTS
    Names, Salts,
    PremiumNames,       \* the short names, reserved for an auction
    RevealDelay,        \* finalised blocks between commit and reveal
    CommitmentExpiry    \* finalised blocks a commitment stays open

ASSUME NameAssumption ==
    /\ RevealDelay \in Nat /\ CommitmentExpiry \in Nat
    /\ PremiumNames \subseteq Names

VARIABLES
    owners,             \* Names -> Accounts or None
    commitments         \* Digest -> Commitment or None

nameVars == <<owners, commitments>>

Digest == Names \X Salts \X Accounts
Commitment == [account : Accounts, committedAt : Height]

ASSUME NoneIsNoName == None \notin Commitment /\ None \notin Accounts

NameTypeOK ==
    /\ owners \in [Names -> Accounts \cup {None}]
    /\ commitments \in [Digest -> Commitment \cup {None}]

NameInit ==
    /\ owners = [n \in Names |-> None]
    /\ commitments = [d \in Digest |-> None]

----------------------------------------------------------------------------

Commit(digest, account, now) ==
    /\ commitments[digest] = None
    /\ commitments' = [commitments EXCEPT ![digest] =
                          [account |-> account, committedAt |-> now]]
    /\ UNCHANGED owners

\* Faulty variant of Reveal: nobody asks whether the name is taken.
RevealTaken(name, salt, account, now) ==
    LET digest == <<name, salt, account>> IN
    /\ name \notin PremiumNames
    /\ commitments[digest] # None
    /\ commitments[digest].account = account
    /\ now >= HeightPlus(commitments[digest].committedAt, RevealDelay)
    /\ now <= HeightPlus(commitments[digest].committedAt, CommitmentExpiry)
    /\ commitments' = [commitments EXCEPT ![digest] = None]
    /\ owners' = [owners EXCEPT ![name] = account]

Reveal(name, salt, account, now) ==
    LET digest == <<name, salt, account>> IN
    /\ name \notin PremiumNames
    /\ commitments[digest] # None
    /\ commitments[digest].account = account
    /\ now >= HeightPlus(commitments[digest].committedAt, RevealDelay)
    /\ now <= HeightPlus(commitments[digest].committedAt, CommitmentExpiry)
    /\ owners[name] = None
    /\ commitments' = [commitments EXCEPT ![digest] = None]
    /\ owners' = [owners EXCEPT ![name] = account]

\* Faulty variant of IsStale: off by one, keeps a commitment a block longer.
IsStaleOneLater(commitment, now) ==
    now > HeightPlus(commitment.committedAt, CommitmentExpiry) + 1

IsStale(commitment, now) ==
    now > HeightPlus(commitment.committedAt, CommitmentExpiry)

PruneExpired(now) ==
    /\ commitments' = [d \in Digest |->
            IF commitments[d] # None /\ IsStale(commitments[d], now)
            THEN None ELSE commitments[d]]
    /\ UNCHANGED owners

----------------------------------------------------------------------------

(* A name, once granted, never changes hands: no transaction reassigns it. *)
NamesKept == \A n \in Names : owners[n] # None => owners'[n] = owners[n]

NameNeverReassigned == [][NamesKept]_nameVars

=============================================================================
