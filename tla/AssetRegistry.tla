--------------------------- MODULE AssetRegistry ---------------------------
(***************************************************************************)
(* Local assets: who may issue them, and how much of each is outstanding.  *)
(***************************************************************************)
EXTENDS Protocol

CONSTANT Tickers

VARIABLE assets         \* AssetIds -> AssetRecord or None

AssetRecord ==
    [issuer : Accounts, ticker : Tickers, reissuable : BOOLEAN,
     supply : Amount]

ASSUME NoneIsNoAsset == None \notin AssetRecord

AssetTypeOK == assets \in [AssetIds -> AssetRecord \cup {None}]

AssetInit == assets = [x \in AssetIds |-> None]

Exists(x) == assets[x] # None

\* A ticker is held by whoever created the asset that bears it, for ever.
TickerTaken(t) == \E x \in AssetIds : Exists(x) /\ assets[x].ticker = t

----------------------------------------------------------------------------

Create(x, issuer, ticker, reissuable) ==
    /\ ~Exists(x)
    /\ ~TickerTaken(ticker)
    /\ assets' = [assets EXCEPT ![x] =
            [issuer |-> issuer, ticker |-> ticker, reissuable |-> reissuable,
             supply |-> 0]]

\* A closed issue may be minted while nothing of it is outstanding.
AuthoriseMint(x, caller, amount) ==
    /\ amount # 0
    /\ Exists(x)
    /\ assets[x].issuer = caller
    /\ assets[x].reissuable \/ assets[x].supply = 0
    /\ assets[x].supply + amount <= MaxAmount
    /\ assets' = [assets EXCEPT ![x].supply = @ + amount]

\* Faulty variant of RecordBurn: the supply is left as it was.
RecordNoBurn(x, amount) ==
    /\ amount # 0
    /\ Exists(x)
    /\ UNCHANGED assets

RecordBurn(x, amount) ==
    /\ amount # 0
    /\ Exists(x)
    /\ amount <= assets[x].supply
    /\ assets' = [assets EXCEPT ![x].supply = @ - amount]

=============================================================================
