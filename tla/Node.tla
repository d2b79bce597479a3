-------------------------------- MODULE Node --------------------------------
(***************************************************************************)
(* Proposing and validating blocks.  Nodes build blocks on their own tip   *)
(* and publish them; published blocks reach other nodes late, twice, out   *)
(* of order, altered by a relay, or never.  A node keeps nothing on disk:  *)
(* restarted, it replays from genesis and may follow another branch.       *)
(* The ledger is cut down to what the pipeline can tell apart: which       *)
(* transactions apply, in which order, and what housekeeping changes.      *)
(***************************************************************************)
EXTENDS BlockHeader, HashChain

CONSTANTS
    Nodes,
    Users,              \* accounts with money
    Payer,              \* the user whose channel may be closed
    Deposit,            \* what that channel holds
    Balance,            \* what each user has at genesis
    Window,             \* the channel's contestation window
    Genesis,            \* the validator set
    Seed,               \* the epoch seed
    MaxRevealCatchup,   \* how far a reveal may lie ahead
    Faulty,             \* validators that sign whatever they like
    Candidates,         \* lists of transactions offered to a producer
    MaxHeight,          \* bound: the highest block
    MaxPublished        \* bound: blocks published

ASSUME ChainAssumption ==
    /\ Payer \in Users /\ Deposit \in Nat /\ Balance \in Nat /\ Window \in Nat \ {0}
    /\ MaxRevealCatchup \in Nat \ {0} /\ MaxHeight \in Nat /\ MaxPublished \in Nat

ValidatorRecords == [bond : Nat, multiplier : Nat, root : {Root}, lastReveal : Nat]

\* Nobody has revealed a link when the chain starts, and nobody is called Absent.
ASSUME ValidatorsAssumption ==
    /\ Absent \notin Accounts /\ Absent \notin ValidatorRecords
    /\ Genesis \in [Accounts -> {Absent} \cup ValidatorRecords]
    /\ \A v \in Accounts : IsKnown(Genesis, v) => Genesis[v].lastReveal = Root

Transactions == [body : [account : Users, sequence : Nat, kind : STRING], genuine : BOOLEAN]

ASSUME CandidatesAssumption == Candidates \subseteq Seq(Transactions)

VARIABLES
    node,           \* per node: tip, ledger, validators, rung its tip reached
    published       \* blocks: header, signer, transactions, certificate

vars == <<node, published>>

Roster == Draw(Genesis, Seed)

SecurityBudget(validators) ==
    LET bonds == SumFunction([v \in Accounts |->
                                 IF IsKnown(validators, v) THEN validators[v].bond ELSE 0])
    IN  IF bonds <= SupplyCap THEN bonds \div 3 ELSE Absent

----------------------------------------------------------------------------
(* The ledger.  The channel is open (Absent), closing since a finalised    *)
(* height, or Settled; every transaction costs its account one unit.       *)

Settled == -1
Body(account, sequence, kind) == [account |-> account, sequence |-> sequence, kind |-> kind]
AllowedInProvisional == {"Transfer"}

Ledgers ==
    [balance : [Users -> Nat], next : [Users -> Nat],
     closing : Nat \cup {Absent, Settled}, fees : Nat]

ASSUME LedgersAssumption == Absent \notin Ledgers

GenesisLedger ==
    [balance |-> [u \in Users |-> Balance], next |-> [u \in Users |-> 0],
     closing |-> Absent, fees |-> 0]

\* Settling the channel whose window is over, before any transaction.
Housekeep(ledger, finalized) ==
    IF ledger.closing \in Nat /\ ledger.closing + Window <= finalized
    THEN [ledger EXCEPT !.balance[Payer] = @ + Deposit, !.closing = Settled]
    ELSE ledger

Grammatical(context, body) == context.rung = Provisional => body.kind \in AllowedInProvisional

\* Faulty variant of Applies: an account pays what it does not have.
AppliesUnfunded(ledger, body) ==
    /\ body.sequence = ledger.next[body.account]
    /\ body.kind = "PurseCloseUnilateral" => ledger.closing = Absent

Applies(ledger, body) ==
    /\ body.sequence = ledger.next[body.account]
    /\ ledger.balance[body.account] >= 1
    /\ body.kind = "PurseCloseUnilateral" => ledger.closing = Absent

Effect(ledger, context, body) ==
    [ledger EXCEPT !.balance[body.account] = @ - 1,
                   !.next[body.account] = @ + 1,
                   !.fees = @ + 1,
                   !.closing = IF body.kind = "PurseCloseUnilateral" THEN context.finalized ELSE @]

Passes(ledger, context, tx) ==
    Grammatical(context, tx.body) /\ tx.genuine /\ Applies(ledger, tx.body)

\* A validator refuses the whole list at the first one that does not pass.
ApplyAll(ledger, context, txs) ==
    FoldLeft(LAMBDA l, tx : IF l # Absent /\ Passes(l, context, tx)
                            THEN Effect(l, context, tx.body) ELSE Absent,
             ledger, txs)

\* A producer leaves out what does not pass.
IncludeAll(ledger, context, txs) ==
    FoldLeft(LAMBDA b, tx : IF Passes(b.ledger, context, tx)
                            THEN [ledger |-> Effect(b.ledger, context, tx.body),
                                  txs |-> Append(b.txs, tx)]
                            ELSE b,
             [ledger |-> ledger, txs |-> <<>>], txs)

Bodies(txs) == [i \in 1..Len(txs) |-> txs[i].body]

FeeEmissionRatio(ledger, emitted) == <<ledger.fees, emitted>>

----------------------------------------------------------------------------
(* propose.rs: what a producer asks of its inputs, and the block it makes. *)

MayBuild(input, parent, validators) ==
    /\ input.rung \in ClaimableByAHeader
    /\ IsActiveAt(Roster, input.proposer, BlockInEpoch(parent.height + 1))
    /\ IsKnown(validators, input.proposer)
    /\ input.finalized >= parent.finalized
    /\ CounterAllowed(parent.emitted, input.emitted, EpochOfHeight(parent.height + 1))

\* Faulty variant of Fill: the producer leaves housekeeping to the validators.
FillOnly(ledger, context, candidates) == IncludeAll(ledger, context, candidates)

\* Housekeeping first, as validation does it.
Fill(ledger, context, candidates) ==
    IncludeAll(Housekeep(ledger, context.finalized), context, candidates)

\* The header follows from the inputs and from what was filled in; a block that
\* claims the chain rung is its own finalised tip.
Build(input, candidates, state) ==
    LET height    == state.tip.height + 1
        finalized == IF input.rung = Chain THEN height ELSE input.finalized
        filled    == Fill(state.ledger, [rung |-> input.rung, finalized |-> finalized], candidates)
        budget    == SecurityBudget(state.validators)
    IN  [header |-> [height |-> height, parent |-> Id(state.tip), rung |-> input.rung,
                     finalized |-> finalized, stateRoot |-> filled.ledger,
                     txRoot |-> Bodies(filled.txs), proposer |-> input.proposer,
                     reveal |-> input.reveal, emitted |-> input.emitted,
                     budget |-> IF budget = Absent THEN 0 ELSE budget,
                     ratio |-> FeeEmissionRatio(filled.ledger, input.emitted)],
         signer |-> input.proposer, txs |-> filled.txs, certificate |-> Absent]

----------------------------------------------------------------------------
(* validate.rs: the checks in the order of run, and all or nothing. *)

\* The reveal moves the proposer's sealed chain on.
RevealAdvances(header, validators) ==
    Advances(Cursor(validators[header.proposer].lastReveal), header.reveal, MaxRevealCatchup)

\* Faulty variant of SpendReveal: the reveal stays usable.
KeepReveal(validators, header) == validators

\* The next block of this proposer has to move further along its chain.
SpendReveal(validators, header) ==
    [validators EXCEPT ![header.proposer].lastReveal = header.reveal]

\* No certificate, or one that verifies on a block that may carry it.
CertificateAcceptable(block, validators) ==
    block.certificate # Absent =>
        /\ block.header.rung # Provisional
        /\ Verifies(block.certificate, block.header, Roster,
                    BlockInEpoch(block.header.height), validators)

ReachedRung(block, validators) ==
    IF block.certificate # Absent /\ Finalises(block.certificate, block.header, Roster,
                                               BlockInEpoch(block.header.height), validators)
    THEN Chain ELSE Provisional

IsValid(block, state, applied) ==
    LET header == block.header
    IN  /\ SelfConsistent(header)
        /\ Follows(header, state.tip)
        /\ ProposerEntitled(block, Roster, state.validators)
        /\ RevealAdvances(header, state.validators)
        /\ header.txRoot = Bodies(block.txs)
        /\ CertificateAcceptable(block, state.validators)
        /\ applied # Absent
        /\ header.stateRoot = applied
        /\ header.ratio = FeeEmissionRatio(applied, header.emitted)
        /\ header.budget = SecurityBudget(state.validators)

\* What housekeeping and the transactions of a block make of a ledger.
Working(block, ledger) ==
    ApplyAll(Housekeep(ledger, block.header.finalized), block.header, block.txs)

\* What a valid block leaves behind; its reveal is spent.
After(block, state, applied) ==
    [tip        |-> block.header,
     ledger     |-> applied,
     validators |-> SpendReveal(state.validators, block.header),
     reached    |-> ReachedRung(block, state.validators)]

\* Faulty variant of ValidateAndApply: housekeeping outlives a refused block.
ValidateInPlace(block, state) ==
    LET applied == Working(block, state.ledger)
    IN  IF IsValid(block, state, applied) THEN After(block, state, applied)
        ELSE [state EXCEPT !.ledger = Housekeep(@, block.header.finalized)]

\* On a copy, committed only when everything passed.
ValidateAndApply(block, state) ==
    LET applied == Working(block, state.ledger)
    IN  IF IsValid(block, state, applied) THEN After(block, state, applied) ELSE state

----------------------------------------------------------------------------
(* The nodes and what reaches them. *)

GenesisHeader ==
    [height |-> 0, parent |-> ZeroId, rung |-> Chain, finalized |-> 0,
     stateRoot |-> GenesisLedger, txRoot |-> <<>>, proposer |-> Absent, reveal |-> Root,
     emitted |-> 0, budget |-> SecurityBudget(Genesis), ratio |-> <<0, 0>>]

GenesisState ==
    [tip |-> GenesisHeader, ledger |-> GenesisLedger, validators |-> Genesis, reached |-> Chain]

Init == node = [n \in Nodes |-> GenesisState] /\ published = {}

\* A certificate by every member on duty, and one with a vote too many.
FullCertificate(header) ==
    CertificateOf({v \in ActiveAt(Roster, BlockInEpoch(header.height)) : AlgorithmAllowed(v)}, header)
Certificates(header) ==
    {Absent, FullCertificate(header),
     [FullCertificate(header) EXCEPT !.votes = Append(@, Vote(Max(Accounts), Absent))]}

\* What anybody can do to a block: other certificates, signatures or bodies.
Relayed(block) ==
    {[block EXCEPT !.certificate = c] : c \in Certificates(block.header)}
    \cup {[block EXCEPT !.txs = <<>>]}
    \cup {[block EXCEPT !.txs = [i \in DOMAIN @ |-> [@[i] EXCEPT !.genuine = FALSE]]]}

\* Headers with one number changed; only a faulty proposer signs them.
Altered(block) ==
    {[block EXCEPT !.header = h, !.signer = IF h.proposer \in Faulty THEN h.proposer ELSE Absent] :
        h \in {[block.header EXCEPT !.stateRoot = GenesisLedger],
               [block.header EXCEPT !.finalized = @ + 1],
               [block.header EXCEPT !.height = @ + 1],
               [block.header EXCEPT !.reveal = @ - 1],
               [block.header EXCEPT !.emitted = @ + 1],
               [block.header EXCEPT !.budget = @ + 1],
               [block.header EXCEPT !.rung = Federal]}}

Deliverable(block) == Relayed(block) \cup Altered(block)

\* A validator proposes on its node's tip, with whatever the caller supplies.
Propose(n) ==
    LET state == node[n]
        parent == state.tip
    IN  /\ parent.height < MaxHeight /\ Cardinality(published) < MaxPublished
        /\ \E proposer \in Accounts, rung \in Rungs, candidates \in Candidates,
              finalized \in {parent.finalized, parent.height + 2},
              ahead \in {1, MaxRevealCatchup + 1},
              emitted \in {parent.emitted, PermittedThrough(EpochOfHeight(parent.height + 1))} :
              LET input == [proposer |-> proposer, rung |-> rung, finalized |-> finalized,
                            reveal |-> state.validators[proposer].lastReveal + ahead,
                            emitted |-> emitted]
              IN  /\ MayBuild(input, parent, state.validators)
                  /\ published' = published \cup {Build(input, candidates, state)}
        /\ UNCHANGED node

\* A block reaches a node, which accepts it whole or stays as it is; staying is
\* no step.
Deliver(n) ==
    /\ \E block \in published : \E arrived \in Deliverable(block) :
          node' = [node EXCEPT ![n] = ValidateAndApply(arrived, @)]
    /\ node' # node
    /\ UNCHANGED published

\* A crash: nothing was stored, the node starts again from genesis.
Restart(n) ==
    /\ node' = [node EXCEPT ![n] = GenesisState]
    /\ UNCHANGED published

Next == \E n \in Nodes : Propose(n) \/ Deliver(n) \/ Restart(n)

Spec == Init /\ [][Next]_vars

----------------------------------------------------------------------------
(* What proposal and validation promise together. *)

\* The headers from genesis to a tip, by height.
Line(tip) ==
    LET at[h \in 0..tip.height] == IF h = tip.height THEN tip ELSE at[h + 1].parent[1]
    IN  at

\* The ledger that a tip's own line of headers leads to.
Replayed(tip) ==
    LET line == Line(tip)
        after[h \in 0..tip.height] ==
            IF h = 0 THEN GenesisLedger
            ELSE Working([header |-> line[h],
                          txs |-> [i \in DOMAIN line[h].txRoot |->
                                      [body |-> line[h].txRoot[i], genuine |-> TRUE]]],
                         after[h - 1])
    IN  after[tip.height]

TypeOK ==
    /\ \A n \in Nodes :
          /\ node[n].tip.height \in 0..MaxHeight
          /\ node[n].ledger \in Ledgers
          /\ node[n].validators \in [Accounts -> {Absent} \cup ValidatorRecords]
          /\ node[n].reached \in ClaimableByAHeader
    /\ Cardinality(published) <= MaxPublished

\* A node's state is the replay of its tip's line of headers and of nothing
\* else: refused blocks, certificates, repeats and restarts leave no trace, and
\* two nodes on one tip hold the same ledger (validate_and_apply).
StateIsItsBranch ==
    \A n \in Nodes :
        /\ node[n].ledger = Replayed(node[n].tip)
        /\ \A v \in Accounts : IsKnown(Genesis, v) =>
              node[n].validators[v].lastReveal =
                Max({Root} \cup {header.reveal : header \in
                        {h \in Range(Line(node[n].tip)) : h.proposer = v}})

\* On a branch no proposer shows a link of its sealed chain twice, or an
\* earlier one, whatever was refused or replayed before (the reveal of run).
RevealsOnlyAdvance ==
    \A n \in Nodes :
        LET line == Line(node[n].tip)
        IN  \A i, j \in 1..node[n].tip.height :
              i < j /\ line[i].proposer = line[j].proposer => line[i].reveal < line[j].reveal

\* What build makes, validation accepts, on whatever node stands at the same
\* parent: the two run the same rules in the same order.  Four things only
\* validation asks of the producer's caller are named (propose.rs).
ProposalsValidate ==
    \A block \in published : \A n \in Nodes :
        LET header == block.header
            validators == node[n].validators
        IN  /\ header.parent = Id(node[n].tip)
            /\ header.finalized <= header.height
            /\ AlgorithmAllowed(header.proposer)
            /\ RevealAdvances(header, validators)
            /\ SecurityBudget(validators) # Absent
            => ValidateAndApply(block, node[n]).tip = header

\* The counter never passes the sum of what each epoch emits, although it is
\* audited from the height alone (permitted_through, check_counter).
EmissionWithinSchedule ==
    \A n \in Nodes :
        node[n].tip.emitted <=
            SumFunction([e \in 0..EpochOfHeight(node[n].tip.height) |-> EmissionForEpoch(e)])

\* Whatever signed headers are put side by side, evidence convicts an honest
\* validator only if it did propose two blocks at one height: never by one
\* block shown twice, by an altered copy, or by another's block.
EvidenceNeedsTwoBlocks ==
    LET presentable == published \cup UNION {Altered(block) : block \in published}
    IN  \A first, second \in presentable, v \in Accounts \ Faulty :
          IsEquivocation(v, first, second) =>
            \E b, c \in published :
                b.header # c.header /\ b.header.height = c.header.height
                /\ b.header.proposer = v /\ c.header.proposer = v

=============================================================================
