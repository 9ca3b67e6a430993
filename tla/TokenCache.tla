----------------------------- MODULE TokenCache -----------------------------
(***************************************************************************)
(* EVMTokenDecoder (internal/repo/evm/token_decoder.go): Decode, run by    *)
(* many requests at once, looks up symbol and decimals of each token that  *)
(* moved, in tokenCache, a Go map that no lock protects, and on a miss by  *)
(* two calls on the node under a timeout of its own.                       *)
(*                                                                         *)
(* An access of the map is two steps, so that two can overlap.  What an    *)
(* overlap does is undefined: the Go runtime may notice and end the        *)
(* process, a read may miss an entry, a write may get lost.                *)
(***************************************************************************)
EXTENDS Integers, FiniteSets

CONSTANTS
  Call,      \* Decode calls: one goroutine each
  Token,
  Addr,      \* the addresses between which each token moves
  Moves,     \* [Call -> SUBSET Token]s: what the simulations may move
  Symbol,    \* [Token -> what decodeStringReturn makes of symbol()]
  Decimals   \* [Token -> the uint256 that decimals() returns]

ASSUME TokenAssumption ==
  /\ \A t \in Token : Decimals[t] \in Nat
  /\ \A moved \in Moves : moved \in [Call -> SUBSET Token]

VARIABLES
  deltas,      \* [Call -> the deltas that are not zero]: its map, once it is filled
  todo,        \* [Call -> deltas not yet converted]
  cur,         \* [Call -> the delta being converted, if any]
  pc,          \* [Call -> Step]
  meta,        \* [Call -> the tokenMeta being filled in]
  late,        \* calls whose 3 seconds for this token are over
  tokenCache,  \* [Token -> a set: the entry, if there is one]
  changes,     \* [Call -> the AssetChanges made of deltas]
  fetched,     \* [Token -> the calls that asked the node for it]
  up           \* the process runs

vars == <<deltas, todo, cur, pc, meta, late, tokenCache, changes, fetched, up>>

Step == {"next", "read", "symbol", "decimals", "store", "write", "done"}

\* The keys of the map deltas.
Delta == Addr \X Token

TokenOf(c) == CHOOSE t \in Token : \E d \in cur[c] : d[2] = t

Unknown == [symbol |-> "UNKNOWN", decimals |-> 18]

\* Bug: the number the contract returns, whatever its size.
AsReturned(n) == n

\* uint8(...Uint64())
Uint8(n) == n % 256

Symbols   == {Symbol[t] : t \in Token} \cup {Unknown.symbol}
tokenMeta == [symbol : Symbols, decimals : 0..255]

Goto(c, step) == pc' = [pc EXCEPT ![c] = step]

Reading(c) == pc[c] = "read"
Writing(c) == pc[c] = "write"

\* Another goroutine is writing while this one is in the map.
Overlap(c) ==
  /\ Reading(c) \/ Writing(c)
  /\ \E o \in Call \ {c} : Writing(o)

\* Bug: a token without a name is left out of the reply.
ConvertKnown(c, m) ==
  /\ changes' = [changes EXCEPT ![c] =
                   @ \cup {[delta |-> d, meta |-> m] :
                            d \in {e \in cur[c] : m.symbol # Unknown.symbol}}]
  /\ cur' = [cur EXCEPT ![c] = {}]
  /\ meta' = [meta EXCEPT ![c] = Unknown]
  /\ late' = late \ {c}
  /\ Goto(c, "next")

\* The AssetChange of the current delta; the locals of lookupToken go.
Convert(c, m) ==
  /\ changes' = [changes EXCEPT ![c] =
                   @ \cup {[delta |-> d, meta |-> m] : d \in cur[c]}]
  /\ cur' = [cur EXCEPT ![c] = {}]
  /\ meta' = [meta EXCEPT ![c] = Unknown]
  /\ late' = late \ {c}
  /\ Goto(c, "next")

\* The loop over deltas takes the next one, in no particular order, and
\* lookupToken goes for the map.
Lookup(c) ==
  /\ pc[c] = "next"
  /\ \E d \in todo[c] : /\ todo' = [todo EXCEPT ![c] = @ \ {d}]
                        /\ cur' = [cur EXCEPT ![c] = {d}]
  /\ Goto(c, "read")
  /\ UNCHANGED <<deltas, meta, late, tokenCache, changes, fetched, up>>

\* Bug: the map keyed by the holder's address in place of the token's.
HitOfHolder(c) ==
  /\ Reading(c)
  /\ \E t \in Token : \E m \in tokenCache[t] : Convert(c, m)
  /\ UNCHANGED <<deltas, todo, tokenCache, fetched, up>>

\* The entry is returned as it is.
Hit(c) ==
  /\ Reading(c)
  /\ \E m \in tokenCache[TokenOf(c)] : Convert(c, m)
  /\ UNCHANGED <<deltas, todo, tokenCache, fetched, up>>

\* context.WithTimeout(context.Background(), 3*time.Second)
Miss(c) ==
  /\ Reading(c)
  /\ tokenCache[TokenOf(c)] = {} \/ Overlap(c)
  /\ fetched' = [fetched EXCEPT ![TokenOf(c)] = @ \cup {c}]
  /\ Goto(c, "symbol")
  /\ UNCHANGED <<deltas, todo, cur, meta, late, tokenCache, changes, up>>

\* A call on the node answers in time, or comes back with an error.
InTime(c) == c \notin late

\* symbol()
FetchSymbol(c) ==
  /\ pc[c] = "symbol"
  /\ \/ InTime(c) /\ meta' = [meta EXCEPT ![c].symbol = Symbol[TokenOf(c)]]
     \/ UNCHANGED meta
  /\ Goto(c, "decimals")
  /\ UNCHANGED <<deltas, todo, cur, late, tokenCache, changes, fetched, up>>

\* Bug: no timeout, and a node that never answers.
FetchDecimalsBlocks(c) ==
  /\ pc[c] = "decimals"
  /\ InTime(c)
  /\ meta' = [meta EXCEPT ![c].decimals = Uint8(Decimals[TokenOf(c)])]
  /\ Goto(c, "store")
  /\ UNCHANGED <<deltas, todo, cur, late, tokenCache, changes, fetched, up>>

\* decimals()
FetchDecimals(c) ==
  /\ pc[c] = "decimals"
  /\ \/ /\ InTime(c)
        /\ meta' = [meta EXCEPT ![c].decimals = Uint8(Decimals[TokenOf(c)])]
     \/ UNCHANGED meta
  /\ Goto(c, "store")
  /\ UNCHANGED <<deltas, todo, cur, late, tokenCache, changes, fetched, up>>

\* The 3 seconds are over.
Expire(c) ==
  /\ pc[c] \in {"symbol", "decimals"}
  /\ InTime(c)
  /\ late' = late \cup {c}
  /\ UNCHANGED <<deltas, todo, cur, pc, meta, tokenCache, changes, fetched, up>>

\* d.tokenCache[address] = m, whatever the two calls came to ...
Store(c) ==
  /\ pc[c] = "store"
  /\ Goto(c, "write")
  /\ UNCHANGED <<deltas, todo, cur, meta, late, tokenCache, changes, fetched, up>>

\* Bug: a failed lookup is not kept.
StoredIfKnown(c) ==
  /\ Writing(c)
  /\ tokenCache' = IF meta[c].symbol = Unknown.symbol THEN tokenCache
                   ELSE [tokenCache EXCEPT ![TokenOf(c)] = {meta[c]}]
  /\ Convert(c, meta[c])
  /\ UNCHANGED <<deltas, todo, fetched, up>>

\* ... and the change is made with the goroutine's own m.
Stored(c) ==
  /\ Writing(c)
  /\ \/ tokenCache' = [tokenCache EXCEPT ![TokenOf(c)] = {meta[c]}]
     \/ Overlap(c) /\ UNCHANGED tokenCache
  /\ Convert(c, meta[c])
  /\ UNCHANGED <<deltas, todo, fetched, up>>

Return(c) ==
  /\ pc[c] = "next"
  /\ todo[c] = {}
  /\ Goto(c, "done")
  /\ UNCHANGED <<deltas, todo, cur, meta, late, tokenCache, changes, fetched, up>>

\* "fatal error: concurrent map read and map write": not a panic, so nothing
\* recovers from it, and every request of the process is lost.
FatalError ==
  /\ \E c \in Call : Overlap(c)
  /\ up' = FALSE
  /\ UNCHANGED <<deltas, todo, cur, pc, meta, late, tokenCache, changes, fetched>>

Decode(c) ==
  \/ Lookup(c) \/ Hit(c) \/ Miss(c)
  \/ FetchSymbol(c) \/ FetchDecimals(c)
  \/ Store(c) \/ Stored(c)
  \/ Return(c)

Init ==
  /\ \E moved \in Moves : deltas = [c \in Call |-> Addr \X moved[c]]
  /\ todo = deltas
  /\ cur = [c \in Call |-> {}]
  /\ pc = [c \in Call |-> "next"]
  /\ meta = [c \in Call |-> Unknown]
  /\ late = {}
  /\ tokenCache = [t \in Token |-> {}]
  /\ changes = [c \in Call |-> {}]
  /\ fetched = [t \in Token |-> {}]
  /\ up = TRUE

Next ==
  /\ up
  /\ \/ \E c \in Call : Decode(c) \/ Expire(c)
     \/ FatalError

Spec == Init /\ [][Next]_vars

\* Goroutines are scheduled; the context of a lookup expires and then the
\* calls under it return, whether the node answers or not.
Fairness ==
  \A c \in Call :
    /\ WF_vars(up /\ pc[c] \notin {"symbol", "decimals"} /\ Decode(c))
    /\ WF_vars(up /\ Expire(c))
    /\ WF_vars(up /\ ~InTime(c) /\ Decode(c))

FairSpec == Spec /\ Fairness

-----------------------------------------------------------------------------
\* Every variable keeps its type; the symbols and decimals shown and cached fit
\* tokenMeta.
TypeOK ==
  /\ deltas \in [Call -> SUBSET Delta]
  /\ todo \in [Call -> SUBSET Delta]
  /\ cur \in [Call -> SUBSET Delta]
  /\ pc \in [Call -> Step]
  /\ meta \in [Call -> tokenMeta]
  /\ late \subseteq Call
  /\ tokenCache \in [Token -> SUBSET tokenMeta]
  /\ changes \in [Call -> SUBSET [delta : Delta, meta : tokenMeta]]
  /\ fetched \in [Token -> SUBSET Call]
  /\ up \in BOOLEAN

\* What either of the two calls on the node can make of a token: its own value
\* or the default, each for itself (token_decoder.go:209-236).
MetaOf(t) ==
  [symbol   : {Symbol[t], Unknown.symbol},
   decimals : {Uint8(Decimals[t]), Unknown.decimals}]

\* No reply shows one token under the name or the decimals of another one,
\* however the lookups of several calls interleave in the one map.
MetaIsOfItsToken ==
  \A c \in Call : \A x \in changes[c] : x.meta \in MetaOf(x.delta[2])

\* No other call has asked the node for a token, so none has filled the map.
Alone(c) == \A o \in Call \ {c}, t \in Token : o \notin fetched[t]

\* Both sides of a transfer are shown in the same unit: the changes of one call
\* agree on the symbol and decimals of a token, failed lookups included, as
\* long as no other call has filled the map (token_decoder.go:205-207, 239).
SameUnit ==
  \A c \in Call : Alone(c) =>
    \A x, y \in changes[c] : x.delta[2] = y.delta[2] => x.meta = y.meta

\* The deltas that have become changes.
Converted(c) == {x.delta : x \in changes[c]}

\* None of the deltas that the logs came to gets lost between the map and the
\* reply, whatever the lookups come to, and none is shown twice under two names:
\* each is pending, current or converted, and a reply that is returned has one
\* change for each of them (token_decoder.go:139-153).
OneChangePerDelta ==
  \A c \in Call :
    /\ \A x, y \in changes[c] : x.delta = y.delta => x = y
    /\ todo[c] \cup cur[c] = deltas[c] \ Converted(c)
    /\ Converted(c) \subseteq deltas[c]
    /\ pc[c] = "done" => Converted(c) = deltas[c]

(***************************************************************************)
(* The inductive invariant behind the three properties.                    *)
(***************************************************************************)
\* A lookup has one current delta, which is not pending, and its token's name
\* is on the node's list once the map has been missed.
Fetching(c) == pc[c] \in {"symbol", "decimals", "store", "write"}

DeltaInv ==
  \A c \in Call :
    /\ pc[c] \in {"next", "done"} => cur[c] = {}
    /\ pc[c] \notin {"next", "done"} => \E d \in Delta : cur[c] = {d}
    /\ cur[c] \cap todo[c] = {}
    /\ Fetching(c) => c \in fetched[TokenOf(c)]

\* What is being filled in, and what the map holds, is of the token it is for;
\* the map holds one entry for a token at most.
MetaInv ==
  /\ \A c \in Call : Fetching(c) => meta[c] \in MetaOf(TokenOf(c))
  /\ \A c \in Call : ~Fetching(c) => meta[c] = Unknown
  /\ \A t \in Token : tokenCache[t] \subseteq MetaOf(t)
  /\ \A t \in Token : \A m, n \in tokenCache[t] : m = n

\* Where nobody else has filled the map, it agrees with all that the call has
\* made of it, and has no entry for a token the call is still asking about.
AloneInv ==
  \A c \in Call : Alone(c) =>
    /\ \A x \in changes[c] : x.meta \in tokenCache[x.delta[2]]
    /\ Fetching(c) => tokenCache[TokenOf(c)] = {}

\* Who fills the map, and with what: the state of every call and of every entry
\* is consistent (token_decoder.go:139-153, 204-241).
TokenInv ==
  /\ TypeOK /\ DeltaInv /\ MetaInv /\ AloneInv
  /\ MetaIsOfItsToken /\ OneChangePerDelta

\* Decode comes to an end, whatever the node does, as long as the process does
\* not die.
EveryDecodeEnds == \A c \in Call : <>(pc[c] = "done" \/ ~up)

-----------------------------------------------------------------------------
(***************************************************************************)
(* What a comment says and the code does not do.                           *)
(***************************************************************************)

\* Recovery "recovers from panics, logs them, and returns a 500 to the caller
\* instead of crashing the process" (middleware.go:30-31): it cannot recover
\* from what two Decodes in one map may do.
ProcessSurvives == up
=============================================================================
