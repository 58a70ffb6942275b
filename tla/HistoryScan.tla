---------------------------- MODULE HistoryScan ----------------------------
(***************************************************************************)
(* How refresh_whitelist finds its candidates and reads their trades: the  *)
(* wallets of the score table, those that Bitquery discovers, and for each *)
(* the pages of its transfers.  Every request has its retries.  Blocks are *)
(* added to the chain between two pages, and the service orders transfers  *)
(* by block time alone: those of one block come in any order, in each      *)
(* answer anew.                                                            *)
(*                                                                         *)
(* An amount is one unit, zero (a mint or burn does not count at all), or  *)
(* dust; the order in which the candidates are scanned is left open.       *)
(***************************************************************************)
EXTENDS WhaleScore, FiniteSets, SequencesExt

CONSTANTS
    Candidates,
    Discovery,    \* stands for the wallet in the query for candidates
    Blocks,       \* what a block may hold for a wallet: sequences of transfers
    PageSize,     \* PAGE_SIZE
    MaxRetries,   \* max_retries of _query
    MaxBlocks     \* bound on the length of the chain

\* what a transfer is to the wallet
Kinds     == {"in", "out", "mint", "dust"}
Transfers == [tx : Nat, kind : Kinds]

ASSUME BlockAssumption == Blocks \subseteq Seq(Transfers)
ASSUME PageAssumption  == PageSize \in Nat \ {0}
ASSUME BoundsAssumption == MaxRetries \in Nat /\ MaxBlocks \in Nat
ASSUME QueryAssumption == Discovery \notin Candidates

VARIABLES
    pc,
    hasKey,     \* BITQUERY_API_KEY
    todo,       \* candidates not scanned yet
    who,        \* the wallet of the request under way
    attempt,    \* its attempt, from 0
    chain,      \* chain[i]: transfers of who in its i-th block
    got,        \* all_transfers, as pairs of a block and a place in it
    scored,     \* wallets that got a score from their history
    failed,     \* history: wallets whose scan raised
    cut         \* history: an answer without data ended the scan of who

request  == <<who, attempt, chain, got, cut>>
scanVars == <<pc, hasKey, todo, request, scored, failed>>

Chains    == BoundedSeq(Blocks, MaxBlocks)

ScanInit ==
    /\ pc = "idle"
    /\ hasKey \in BOOLEAN
    /\ who = Discovery /\ attempt = 0
    /\ chain = <<>> /\ got = <<>> /\ cut = FALSE
    /\ todo = {} /\ scored = {} /\ failed = {}

-----------------------------------------------------------------------------
\* _build_historical_trades: one trade for each transaction, from its last
\* transfer that is not a mint or a burn; none if that one is dust

Moves(s) == {n \in DOMAIN s : chain[s[n][1]][s[n][2]].kind # "mint"}

TxOf(s, n) == <<s[n][1], chain[s[n][1]][s[n][2]].tx>>

Decides(s, n) == \A m \in Moves(s) : TxOf(s, m) = TxOf(s, n) => m <= n

TradesOf(s) ==
    {t \in {[tx |-> TxOf(s, n), side |-> chain[s[n][1]][s[n][2]].kind]
                : n \in {m \in Moves(s) : Decides(s, m)}} : t.side # "dust"}

\* the sums the scorer sees: no trade of Bitquery is ever resolved
Summary(trades) ==
    [volume |-> Cardinality(trades),
     bought |-> Cardinality({t \in trades : t.side = "in"}),
     trades |-> Cardinality(trades), median |-> 1, resolved |-> 0, wins |-> 0,
     cost |-> 0, payout |-> 0, decayed |-> 0, kinds |-> {}]

\* what a request starts from, and what is left of the last one
NewRequest(w, c) == /\ who' = w /\ attempt' = 0
                    /\ chain' = c /\ got' = <<>> /\ cut' = FALSE
NoRequest == NewRequest(Discovery, <<>>)

-----------------------------------------------------------------------------
\* _fetch_candidate_wallets

ReadTable ==
    /\ pc = "idle"
    /\ todo' \in SUBSET Candidates
    /\ pc' = IF hasKey THEN "post" ELSE "ranks"
    /\ UNCHANGED <<hasKey, request, scored, failed>>

\* not caught: the refresh raises
TableFails ==
    /\ pc = "idle"
    /\ pc' = "raised"
    /\ UNCHANGED <<hasKey, todo, request, scored, failed>>

Discovered ==
    /\ pc = "post" /\ who = Discovery
    /\ \E found \in SUBSET Candidates : todo' = todo \cup found
    /\ pc' = "next"
    /\ NoRequest
    /\ UNCHANGED <<hasKey, scored, failed>>

\* the discovery answers no wallets when it fails
NoneDiscovered ==
    /\ pc' = "next"
    /\ NoRequest
    /\ UNCHANGED <<hasKey, todo, scored, failed>>

-----------------------------------------------------------------------------
\* get_wallet_trade_history

Scan(w) ==
    /\ pc = "next" /\ w \in todo
    /\ pc' = "post"
    /\ \E c \in Chains : NewRequest(w, c)
    /\ UNCHANGED <<hasKey, todo, scored, failed>>

\* the orders in which the service may list a block
Orders(i) == {[k \in DOMAIN chain[i] |-> <<i, p[k]>>] :
                 p \in Bijection(DOMAIN chain[i], DOMAIN chain[i])}

\* the lists the service may answer from: block after block, each in any order
Shuffles == {o \in [DOMAIN chain -> UNION {Orders(i) : i \in DOMAIN chain}] :
                \A i \in DOMAIN chain : o[i] \in Orders(i)}
Listings == {FlattenSeq(o) : o \in Shuffles}

\* Mutant: the offset counts one too many
PageBeyond(all) == SubSeq(all, Len(got) + 2,
                          IF Len(got) + PageSize + 1 <= Len(all)
                          THEN Len(got) + PageSize + 1 ELSE Len(all))

\* offset: only full pages have been added so far
Page(all) == SubSeq(all, Len(got) + 1,
                    IF Len(got) + PageSize <= Len(all) THEN Len(got) + PageSize
                                                       ELSE Len(all))

\* Mutant: it always asks for one more page
MorePages(page) == TRUE

More(page) == Len(page) = PageSize

TakePage ==
    /\ pc = "post" /\ who # Discovery
    /\ attempt' = 0
    /\ UNCHANGED <<hasKey, todo, who, chain, cut, scored, failed>>
    /\ \E all \in Listings :
          /\ got' = got \o Page(all)
          /\ pc' = IF More(Page(all)) THEN "post" ELSE "judge"

\* A GraphQL error or a refusal without "data" looks like the end of the pages.
NoData ==
    /\ pc = "post"
    /\ \/ /\ who = Discovery
          /\ NoneDiscovered
       \/ /\ who # Discovery
          /\ pc' = "judge"
          /\ cut' = TRUE
          /\ UNCHANGED <<hasKey, todo, who, attempt, chain, got, scored, failed>>

\* the chain grows while the pages are fetched
Grow ==
    /\ pc = "post" /\ who # Discovery
    /\ Len(chain) < MaxBlocks
    /\ \E b \in Blocks : chain' = Append(chain, b)
    /\ UNCHANGED <<pc, hasKey, todo, who, attempt, got, cut, scored, failed>>

-----------------------------------------------------------------------------
\* _query: 429, a 5xx, a lost connection and a timeout are tried again

\* Mutant: one attempt too many
RetriesAgain == attempt <= MaxRetries

MayRetry == attempt < MaxRetries

Retry ==
    /\ pc = "post"
    /\ MayRetry
    /\ attempt' = attempt + 1
    /\ UNCHANGED <<pc, hasKey, todo, who, chain, got, cut, scored, failed>>

\* Mutant: a wallet whose scan raised is judged by the pages it got
KeepsPages == /\ failed' = failed \cup {who}
              /\ pc' = "judge" /\ cut' = TRUE
              /\ UNCHANGED <<hasKey, todo, who, attempt, chain, got, scored>>

\* the wallet is left out, the others are scanned as before
Skip == /\ failed' = failed \cup {who}
        /\ todo' = todo \ {who}
        /\ pc' = "next"
        /\ NoRequest
        /\ UNCHANGED <<hasKey, scored>>

Raises == \/ who = Discovery /\ NoneDiscovered
          \/ who # Discovery /\ Skip

GiveUp    == pc = "post" /\ ~MayRetry /\ Raises

\* what is not JSON raises at once
Unparsable == pc = "post" /\ Raises

-----------------------------------------------------------------------------
\* the loop of refresh_whitelist over its candidates

Judge ==
    /\ pc = "judge"
    /\ scored' = scored \cup {w \in {who} : Scored(Summary(TradesOf(got)))}
    /\ todo' = todo \ {who}
    /\ pc' = "next"
    /\ NoRequest
    /\ UNCHANGED <<hasKey, failed>>

\* _score_from_leaderboard_ranks stands in when nobody has a score
Finish ==
    /\ pc = "next" /\ todo = {}
    /\ pc' = IF scored = {} THEN "ranks" ELSE "histories"
    /\ UNCHANGED <<hasKey, todo, request, scored, failed>>

Client == \/ ReadTable \/ TableFails \/ Discovered \/ \E w \in Candidates : Scan(w)
          \/ TakePage \/ NoData \/ Retry \/ GiveUp \/ Unparsable \/ Judge \/ Finish

ScanNext == Client \/ Grow

\* every attempt has its timeout, and nothing else holds the scan up
ScanSpec == ScanInit /\ [][ScanNext]_scanVars
FairScan == ScanSpec /\ WF_scanVars(Client)
=============================================================================
