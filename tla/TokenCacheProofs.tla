-------------------------- MODULE TokenCacheProofs --------------------------
(***************************************************************************)
(* Theorems about TokenCache for every set of calls, addresses and tokens, *)
(* whatever the tokens return.                                             *)
(***************************************************************************)
EXTENDS TokenCache, TLAPS

\* What each step of Next may be.
LEMMA Steps ==
  ASSUME Next
  PROVE  \/ \E c \in Call :
              \/ Lookup(c) \/ Hit(c) \/ Miss(c)
              \/ FetchSymbol(c) \/ FetchDecimals(c)
              \/ Store(c) \/ Stored(c) \/ Return(c) \/ Expire(c)
         \/ FatalError
  BY DEF Next, Decode

\* The token of a lookup is that of its one delta.
LEMMA TokenOfDelta ==
  ASSUME NEW c \in Call, NEW d \in Delta, cur[c] = {d}
  PROVE  TokenOf(c) = d[2] /\ d[2] \in Token
<1>1. d[2] \in Token
  BY DEF Delta
<1>2. \A t \in Token : (\E e \in cur[c] : e[2] = t) <=> t = d[2]
  OBVIOUS
<1> QED
  BY <1>1, <1>2 DEF TokenOf

\* A byte is what is left of any number of decimals.
LEMMA MetaType ==
  ASSUME NEW t \in Token
  PROVE  MetaOf(t) \subseteq tokenMeta /\ Unknown \in MetaOf(t) /\ Unknown \in tokenMeta
<1>1. Uint8(Decimals[t]) \in 0..255
  BY TokenAssumption DEF Uint8
<1> QED
  BY <1>1 DEF MetaOf, tokenMeta, Unknown, Symbols

\* The default is of the type, even where there is no token.
LEMMA UnknownType == Unknown \in tokenMeta
  BY DEF Unknown, tokenMeta, Symbols

-----------------------------------------------------------------------------
\* At first no map entry, no change and no lookup exists.
LEMMA TokenInit == Init => TokenInv
<1> SUFFICES ASSUME Init PROVE TokenInv
  OBVIOUS
<1>1. PICK moved \in Moves : deltas = [c \in Call |-> Addr \X moved[c]]
  BY DEF Init
<1>2. deltas \in [Call -> SUBSET Delta] /\ todo = deltas
  BY <1>1, TokenAssumption DEF Delta, Init
<1>3. TypeOK
  BY <1>2, UnknownType DEF Init, TypeOK, Step
<1>4. DeltaInv /\ MetaInv /\ AloneInv
  BY DEF Init, DeltaInv, MetaInv, AloneInv, Fetching
<1>5. MetaIsOfItsToken /\ OneChangePerDelta
  <2>1. \A c \in Call : Converted(c) = {} /\ todo[c] \cup cur[c] = deltas[c]
    BY DEF Init, Converted
  <2> QED
    BY <2>1 DEF Init, MetaIsOfItsToken, OneChangePerDelta
<1> QED
  BY <1>3, <1>4, <1>5 DEF TokenInv

-----------------------------------------------------------------------------
(***************************************************************************)
(* The invariant, call by call.                                            *)
(***************************************************************************)
CallOK(c) ==
  /\ pc[c] \in {"next", "done"} => cur[c] = {}
  /\ pc[c] \notin {"next", "done"} => \E d \in Delta : cur[c] = {d}
  /\ cur[c] \cap todo[c] = {}
  /\ Fetching(c) => c \in fetched[TokenOf(c)] /\ meta[c] \in MetaOf(TokenOf(c))
  /\ ~Fetching(c) => meta[c] = Unknown
  /\ Alone(c) => /\ \A x \in changes[c] : x.meta \in tokenCache[x.delta[2]]
                 /\ Fetching(c) => tokenCache[TokenOf(c)] = {}
  /\ \A x \in changes[c] : x.meta \in MetaOf(x.delta[2])
  /\ \A x, y \in changes[c] : x.delta = y.delta => x = y
  /\ \A x \in changes[c] : x.delta \in deltas[c] \ (todo[c] \cup cur[c])
  /\ todo[c] \cup cur[c] \subseteq deltas[c]
  /\ \A d \in deltas[c] :
       d \in todo[c] \/ d \in cur[c] \/ \E x \in changes[c] : x.delta = d
  /\ pc[c] = "done" => todo[c] = {}

MapOK ==
  \A t \in Token : /\ tokenCache[t] \subseteq MetaOf(t)
                   /\ \A m, n \in tokenCache[t] : m = n

\* TokenInv is that, for every call.
LEMMA ByCall == TokenInv <=> TypeOK /\ MapOK /\ \A c \in Call : CallOK(c)
<1>1. ASSUME TokenInv, NEW c \in Call PROVE CallOK(c)
  BY <1>1 DEF TokenInv, DeltaInv, MetaInv, AloneInv, MetaIsOfItsToken,
              OneChangePerDelta, Converted, CallOK
<1>2. ASSUME TypeOK, MapOK, \A c \in Call : CallOK(c) PROVE TokenInv
  <2>1. DeltaInv
    BY <1>2 DEF CallOK, DeltaInv
  <2>2. MetaInv
    BY <1>2 DEF CallOK, MapOK, MetaInv
  <2>3. AloneInv
    BY <1>2 DEF CallOK, AloneInv
  <2>4. MetaIsOfItsToken
    BY <1>2 DEF CallOK, MetaIsOfItsToken
  <2>5. OneChangePerDelta
    BY <1>2 DEF CallOK, OneChangePerDelta, Converted, Fetching
  <2> QED
    BY <1>2, <2>1, <2>2, <2>3, <2>4, <2>5 DEF TokenInv
<1>3. TokenInv => TypeOK /\ MapOK
  BY DEF TokenInv, MetaInv, MapOK
<1> QED
  BY <1>1, <1>2, <1>3

\* So it is after a step.
LEMMA ByCallNext ==
  ASSUME TypeOK', MapOK', \A c \in Call : CallOK(c)'
  PROVE  TokenInv'
<1>1. DeltaInv'
  BY DEF CallOK, DeltaInv
<1>2. MetaInv'
  BY DEF CallOK, MapOK, MetaInv
<1>3. AloneInv'
  BY DEF CallOK, AloneInv
<1>4. MetaIsOfItsToken'
  BY DEF CallOK, MetaIsOfItsToken
<1>5. OneChangePerDelta'
  BY DEF CallOK, OneChangePerDelta, Converted, Fetching
<1> QED
  BY <1>1, <1>2, <1>3, <1>4, <1>5 DEF TokenInv

\* The locals of o, and what it has converted.
Locals(o) == <<deltas[o], todo[o], cur[o], pc[o], meta[o], changes[o]>>

\* A call keeps its part of the invariant while another one moves: the map
\* changes only by a call that is on the node's list, and then o is not alone.
LEMMA OthersKept ==
  ASSUME NEW c \in Call, NEW o \in Call \ {c}, CallOK(o), UNCHANGED Locals(o),
         \A t \in Token : fetched[t] \subseteq fetched'[t],
         tokenCache' = tokenCache \/ \E t \in Token : c \in fetched[t]
  PROVE  CallOK(o)'
<1>1. TokenOf(o)' = TokenOf(o) /\ (Fetching(o)' <=> Fetching(o))
  BY DEF TokenOf, Fetching, Locals
<1>2. Alone(o)' => Alone(o) /\ tokenCache' = tokenCache
  BY DEF Alone
<1>3. Fetching(o) => TokenOf(o) \in Token
  <2>1. SUFFICES ASSUME Fetching(o) PROVE TokenOf(o) \in Token
    OBVIOUS
  <2>2. PICK d \in Delta : cur[o] = {d}
    BY <2>1 DEF CallOK, Fetching
  <2> QED
    BY <2>2, TokenOfDelta
<1> QED
  BY <1>1, <1>2, <1>3 DEF CallOK, Locals

\* What has to be shown of the call that moves.
Kept(c) ==
  /\ TypeOK' /\ MapOK' /\ CallOK(c)'
  /\ \A o \in Call \ {c} : UNCHANGED Locals(o)
  /\ \A t \in Token : fetched[t] \subseteq fetched'[t]
  /\ tokenCache' = tokenCache \/ \E t \in Token : c \in fetched[t]

\* A delta that is converted leaves those that wait for one, and only it.
LEMMA ConvertedKept ==
  ASSUME NEW c \in Call, CallOK(c), NEW d, cur[c] = {d}, NEW m,
         changes'[c] = changes[c] \cup {[delta |-> d, meta |-> m]},
         cur'[c] = {}, UNCHANGED <<deltas, todo>>
  PROVE  /\ \A x, y \in changes'[c] : x.delta = y.delta => x = y
         /\ \A x \in changes'[c] : x.delta \in deltas'[c] \ (todo'[c] \cup cur'[c])
         /\ todo'[c] \cup cur'[c] \subseteq deltas'[c]
         /\ \A e \in deltas'[c] : \/ e \in todo'[c] \/ e \in cur'[c]
                                 \/ \E x \in changes'[c] : x.delta = e
<1> DEFINE new == [delta |-> d, meta |-> m]
<1>1. new.delta = d /\ new \in changes'[c]
  OBVIOUS
<1>2. \A x \in changes'[c] : x \in changes[c] \/ x = new
  OBVIOUS
<1>3. changes[c] \subseteq changes'[c]
  OBVIOUS
<1> HIDE DEF new
<1>4. d \in deltas[c] \ todo[c] /\ \A x \in changes[c] : x.delta # d
  BY DEF CallOK
<1>5. \A x, y \in changes'[c] : x.delta = y.delta => x = y
  BY <1>1, <1>2, <1>4 DEF CallOK
<1>6. \A x \in changes'[c] : x.delta \in deltas'[c] \ (todo'[c] \cup cur'[c])
  BY <1>1, <1>2, <1>4 DEF CallOK
<1>7. todo'[c] \cup cur'[c] \subseteq deltas'[c]
  BY DEF CallOK
<1>8. ASSUME NEW e \in deltas'[c]
      PROVE  e \in todo'[c] \/ \E x \in changes'[c] : x.delta = e
  BY <1>1, <1>3, <1>8 DEF CallOK
<1> QED
  BY <1>5, <1>6, <1>7, <1>8

-----------------------------------------------------------------------------
(***************************************************************************)
(* One lemma for each action.                                              *)
(***************************************************************************)
\* The next delta is taken from those that are pending.
LEMMA LookupKeeps ==
  ASSUME TypeOK, MapOK, NEW c \in Call, CallOK(c), Lookup(c)
  PROVE  Kept(c)
<1>1. PICK d \in todo[c] : /\ todo' = [todo EXCEPT ![c] = @ \ {d}]
                           /\ cur' = [cur EXCEPT ![c] = {d}]
  BY DEF Lookup
<1>2. d \in Delta
  BY DEF TypeOK
<1>3. TypeOK'
  <2>1. todo' \in [Call -> SUBSET Delta] /\ cur' \in [Call -> SUBSET Delta]
    BY <1>1, <1>2 DEF TypeOK
  <2> QED
    BY <2>1 DEF Lookup, TypeOK, Goto, Step
<1>4. pc[c] = "next" /\ pc'[c] = "read" /\ cur'[c] = {d} /\ todo'[c] = todo[c] \ {d}
  BY <1>1 DEF Lookup, Goto, TypeOK
<1>5. CallOK(c)'
  BY <1>2, <1>4 DEF CallOK, Fetching, Lookup, Alone
<1> QED
  BY <1>1, <1>3, <1>5 DEF Kept, Lookup, Goto, TypeOK, Locals, MapOK

\* A hit converts the delta with the entry, which is of its token.
LEMMA HitKeeps ==
  ASSUME TypeOK, MapOK, NEW c \in Call, CallOK(c), Hit(c)
  PROVE  Kept(c)
<1>1. PICK d \in Delta : cur[c] = {d}
  BY DEF CallOK, Hit, Reading
<1>2. TokenOf(c) = d[2] /\ d[2] \in Token
  BY <1>1, TokenOfDelta
<1>3. PICK m \in tokenCache[d[2]] : Convert(c, m)
  BY <1>2 DEF Hit
<1>4. m \in tokenMeta /\ m \in MetaOf(d[2])
  BY <1>2, <1>3 DEF TypeOK, MapOK
<1>5. changes' = [changes EXCEPT ![c] = @ \cup {[delta |-> d, meta |-> m]}]
  BY <1>1, <1>3 DEF Convert
<1>6. TypeOK'
  <2>1. changes' \in [Call -> SUBSET [delta : Delta, meta : tokenMeta]]
    BY <1>1, <1>4, <1>5 DEF TypeOK
  <2>2. cur' \in [Call -> SUBSET Delta] /\ pc' \in [Call -> Step]
        /\ meta' \in [Call -> tokenMeta] /\ late' \subseteq Call
    BY <1>3, UnknownType DEF TypeOK, Convert, Goto, Step
  <2> QED
    BY <2>1, <2>2 DEF TypeOK, Hit
<1>7. /\ pc'[c] = "next" /\ cur'[c] = {} /\ meta'[c] = Unknown
      /\ changes'[c] = changes[c] \cup {[delta |-> d, meta |-> m]}
      /\ deltas' = deltas /\ todo' = todo
      /\ tokenCache' = tokenCache /\ fetched' = fetched
  BY <1>3, <1>5 DEF Convert, Goto, TypeOK, Hit
<1>8. CallOK(c)'
  <2>1. /\ \A x, y \in changes'[c] : x.delta = y.delta => x = y
        /\ \A x \in changes'[c] : x.delta \in deltas'[c] \ (todo'[c] \cup cur'[c])
        /\ todo'[c] \cup cur'[c] \subseteq deltas'[c]
        /\ \A e \in deltas'[c] : \/ e \in todo'[c] \/ e \in cur'[c]
                                \/ \E x \in changes'[c] : x.delta = e
    BY <1>1, <1>7, ConvertedKept
  <2>2. ~Fetching(c)' /\ (Alone(c)' <=> Alone(c))
    BY <1>7 DEF Fetching, Alone
  <2>3. /\ Alone(c)' => \A x \in changes'[c] : x.meta \in tokenCache'[x.delta[2]]
        /\ \A x \in changes'[c] : x.meta \in MetaOf(x.delta[2])
    BY <1>3, <1>4, <1>7, <2>2 DEF CallOK
  <2> QED
    BY <1>7, <2>1, <2>2, <2>3 DEF CallOK
<1> QED
  BY <1>3, <1>5, <1>6, <1>7, <1>8 DEF Kept, Convert, Goto, TypeOK, Locals, MapOK

\* A miss puts the call on the node's list; alone, it misses only what the map
\* does not hold.
LEMMA MissKeeps ==
  ASSUME TokenInv, NEW c \in Call, CallOK(c), Miss(c)
  PROVE  Kept(c)
<1>1. PICK d \in Delta : cur[c] = {d}
  BY DEF CallOK, Miss, Reading
<1>2. TokenOf(c) = d[2] /\ d[2] \in Token
  BY <1>1, TokenOfDelta
<1>3. TypeOK /\ MapOK
  BY ByCall
<1>4. fetched' = [fetched EXCEPT ![d[2]] = @ \cup {c}]
  BY <1>2 DEF Miss
<1>5. TypeOK'
  BY <1>2, <1>3, <1>4 DEF TypeOK, Miss, Goto, Step
<1>6. /\ pc[c] = "read" /\ pc'[c] = "symbol" /\ c \in fetched'[d[2]]
      /\ UNCHANGED <<deltas, todo, cur, meta, tokenCache, changes>>
      /\ TokenOf(c)' = d[2]
  BY <1>2, <1>3, <1>4 DEF Miss, Reading, Goto, TypeOK, TokenOf
<1>7. meta[c] = Unknown /\ Unknown \in MetaOf(d[2])
  BY <1>2, <1>6, MetaType DEF CallOK, Fetching
<1>8. ASSUME Alone(c) PROVE tokenCache[d[2]] = {}
  <2>1. ~Overlap(c)
    <3>1. SUFFICES ASSUME NEW o \in Call \ {c}, Writing(o) PROVE FALSE
      BY DEF Overlap
    <3>2. CallOK(o)
      BY ByCall
    <3>3. PICK e \in Delta : cur[o] = {e}
      BY <3>1, <3>2 DEF CallOK, Writing
    <3>4. TokenOf(o) \in Token /\ o \in fetched[TokenOf(o)]
      BY <3>1, <3>2, <3>3, TokenOfDelta DEF CallOK, Fetching, Writing
    <3> QED
      BY <1>8, <3>4 DEF Alone
  <2> QED
    BY <1>2, <2>1 DEF Miss
<1>9. Alone(c)' => Alone(c)
  <2>1. \A t \in Token : fetched[t] \subseteq fetched'[t]
    BY <1>3, <1>4 DEF TypeOK
  <2> QED
    BY <2>1 DEF Alone
<1>10. CallOK(c)'
  BY <1>1, <1>6, <1>7, <1>8, <1>9 DEF CallOK, Fetching
<1> QED
  BY <1>3, <1>4, <1>5, <1>6, <1>10 DEF Kept, Miss, Goto, TypeOK, Locals, MapOK

\* A call on the node answers for the token that is asked about.
LEMMA FetchKeeps ==
  ASSUME TypeOK, MapOK, NEW c \in Call, CallOK(c),
         FetchSymbol(c) \/ FetchDecimals(c) \/ Store(c) \/ Expire(c)
  PROVE  Kept(c)
<1>1. Fetching(c) /\ Fetching(c)'
  BY DEF FetchSymbol, FetchDecimals, Store, Expire, Fetching, Goto, TypeOK
<1>2. PICK d \in Delta : cur[c] = {d}
  BY <1>1 DEF CallOK, Fetching
<1>3. TokenOf(c) = d[2] /\ d[2] \in Token
  BY <1>2, TokenOfDelta
<1>4. meta[c] \in MetaOf(d[2]) /\ meta[c] \in tokenMeta
  BY <1>1, <1>3, MetaType DEF CallOK
<1>5. PICK m \in MetaOf(d[2]) : meta' = [meta EXCEPT ![c] = m]
  <2>1. CASE UNCHANGED meta
    BY <1>4, <2>1 DEF TypeOK
  <2>2. CASE meta' = [meta EXCEPT ![c].symbol = Symbol[d[2]]]
    <3>1. [meta[c] EXCEPT !.symbol = Symbol[d[2]]] \in MetaOf(d[2])
      BY <1>4 DEF MetaOf
    <3> QED
      BY <2>2, <3>1
  <2>3. CASE meta' = [meta EXCEPT ![c].decimals = Uint8(Decimals[d[2]])]
    <3>1. [meta[c] EXCEPT !.decimals = Uint8(Decimals[d[2]])] \in MetaOf(d[2])
      BY <1>4 DEF MetaOf
    <3> QED
      BY <2>3, <3>1
  <2> QED
    BY <1>3, <2>1, <2>2, <2>3 DEF FetchSymbol, FetchDecimals, Store, Expire
<1>6. /\ UNCHANGED <<deltas, todo, cur, tokenCache, changes, fetched, up>>
      /\ pc' \in [Call -> Step]
      /\ \A o \in Call \ {c} : pc'[o] = pc[o]
      /\ late' \subseteq Call
  BY DEF FetchSymbol, FetchDecimals, Store, Expire, Goto, TypeOK, Step
<1>7. TypeOK'
  <2>1. meta' \in [Call -> tokenMeta]
    BY <1>3, <1>5, MetaType DEF TypeOK
  <2> QED
    BY <1>6, <2>1 DEF TypeOK
<1>8. meta'[c] \in MetaOf(d[2]) /\ TokenOf(c)' = d[2]
  BY <1>3, <1>5, <1>6 DEF TypeOK, TokenOf
<1>9. CallOK(c)'
  BY <1>1, <1>2, <1>3, <1>6, <1>8 DEF CallOK, Fetching, Alone
<1> QED
  BY <1>5, <1>6, <1>7, <1>9 DEF Kept, TypeOK, Locals, MapOK

\* The map is written with the meta that the change is made with.
LEMMA StoredKeeps ==
  ASSUME TokenInv, NEW c \in Call, CallOK(c), Stored(c)
  PROVE  Kept(c)
<1>1. PICK d \in Delta : cur[c] = {d}
  BY DEF CallOK, Stored, Writing
<1>2. TokenOf(c) = d[2] /\ d[2] \in Token
  BY <1>1, TokenOfDelta
<1>3. TypeOK /\ MapOK
  BY ByCall
<1> DEFINE m == meta[c]
<1>4. c \in fetched[d[2]] /\ m \in MetaOf(d[2]) /\ m \in tokenMeta
  BY <1>2, MetaType DEF CallOK, Fetching, Stored, Writing
<1>5. /\ tokenCache' \in [Token -> SUBSET tokenMeta]
      /\ \A t \in Token \ {d[2]} : tokenCache'[t] = tokenCache[t]
      /\ \/ tokenCache'[d[2]] = {m}
         \/ tokenCache' = tokenCache /\ Overlap(c)
  BY <1>2, <1>3, <1>4 DEF Stored, TypeOK
<1>6. MapOK'
  BY <1>3, <1>4, <1>5 DEF MapOK
<1>7. /\ pc'[c] = "next" /\ cur'[c] = {} /\ meta'[c] = Unknown
      /\ changes' = [changes EXCEPT ![c] = @ \cup {[delta |-> d, meta |-> m]}]
      /\ UNCHANGED <<deltas, todo, fetched, up>>
  BY <1>1, <1>3 DEF Stored, Convert, Goto, TypeOK
<1>8. TypeOK'
  <2>1. changes' \in [Call -> SUBSET [delta : Delta, meta : tokenMeta]]
    BY <1>1, <1>3, <1>4, <1>7 DEF TypeOK
  <2>2. cur' \in [Call -> SUBSET Delta] /\ pc' \in [Call -> Step]
        /\ meta' \in [Call -> tokenMeta] /\ late' \subseteq Call
    BY <1>3, UnknownType DEF TypeOK, Stored, Convert, Goto, Step
  <2> QED
    BY <1>3, <1>5, <1>7, <2>1, <2>2 DEF TypeOK
<1>9. ASSUME Alone(c) PROVE tokenCache'[d[2]] = {m}
  <2>1. ~Overlap(c)
    <3>1. SUFFICES ASSUME NEW o \in Call \ {c}, Writing(o) PROVE FALSE
      BY DEF Overlap
    <3>2. CallOK(o)
      BY ByCall
    <3>3. PICK e \in Delta : cur[o] = {e}
      BY <3>1, <3>2 DEF CallOK, Writing
    <3>4. TokenOf(o) \in Token /\ o \in fetched[TokenOf(o)]
      BY <3>1, <3>2, <3>3, TokenOfDelta DEF CallOK, Fetching, Writing
    <3> QED
      BY <1>9, <3>4 DEF Alone
  <2> QED
    BY <1>5, <2>1
<1>10. changes'[c] = changes[c] \cup {[delta |-> d, meta |-> m]}
  BY <1>3, <1>7 DEF TypeOK
<1>11. ASSUME Alone(c)', NEW x \in changes'[c] PROVE x.meta \in tokenCache'[x.delta[2]]
  <2>1. Alone(c)
    BY <1>7, <1>11 DEF Alone
  <2>2. CASE x \in changes[c]
    <3>1. x.meta \in tokenCache[x.delta[2]] /\ tokenCache[d[2]] = {}
      BY <1>2, <2>1, <2>2 DEF CallOK, Fetching, Stored, Writing
    <3>2. x.delta[2] \in Token \ {d[2]}
      BY <1>3, <2>2, <3>1 DEF TypeOK, Delta
    <3> QED
      BY <1>5, <3>1, <3>2
  <2>3. CASE x = [delta |-> d, meta |-> m]
    BY <1>9, <2>1, <2>3
  <2> QED
    BY <1>10, <1>11, <2>2, <2>3
<1>12. CallOK(c)'
  <2>1. /\ \A x, y \in changes'[c] : x.delta = y.delta => x = y
        /\ \A x \in changes'[c] : x.delta \in deltas'[c] \ (todo'[c] \cup cur'[c])
        /\ todo'[c] \cup cur'[c] \subseteq deltas'[c]
        /\ \A e \in deltas'[c] : \/ e \in todo'[c] \/ e \in cur'[c]
                                \/ \E x \in changes'[c] : x.delta = e
    BY <1>1, <1>7, <1>10, ConvertedKept
  <2>2. ~Fetching(c)'
    BY <1>7 DEF Fetching
  <2>3. \A x \in changes'[c] : x.meta \in MetaOf(x.delta[2])
    BY <1>4, <1>10 DEF CallOK
  <2> QED
    BY <1>7, <1>11, <2>1, <2>2, <2>3 DEF CallOK
<1>13. \A o \in Call \ {c} : UNCHANGED Locals(o)
  BY <1>3 DEF Stored, Convert, Goto, TypeOK, Locals
<1> QED
  BY <1>2, <1>4, <1>6, <1>7, <1>8, <1>12, <1>13 DEF Kept

\* Nothing is pending when the call returns.
LEMMA ReturnKeeps ==
  ASSUME TypeOK, MapOK, NEW c \in Call, CallOK(c), Return(c)
  PROVE  Kept(c)
<1>1. TypeOK'
  BY DEF Return, TypeOK, Goto, Step
<1>2. CallOK(c)'
  BY DEF Return, TypeOK, Goto, CallOK, Fetching, Alone
<1> QED
  BY <1>1, <1>2 DEF Kept, Return, Goto, TypeOK, Locals, MapOK

-----------------------------------------------------------------------------
\* Every step keeps the invariant.
LEMMA TokenNext == TokenInv /\ [Next]_vars => TokenInv'
<1> SUFFICES ASSUME TokenInv, [Next]_vars PROVE TokenInv'
  OBVIOUS
<1>1. TypeOK /\ MapOK /\ \A c \in Call : CallOK(c)
  BY ByCall
<1>2. ASSUME NEW c \in Call, Kept(c) PROVE TokenInv'
  <2>1. \A o \in Call \ {c} : CallOK(o)'
    BY <1>1, <1>2, OthersKept DEF Kept
  <2>2. TypeOK' /\ MapOK' /\ \A o \in Call : CallOK(o)'
    BY <1>2, <2>1 DEF Kept
  <2> QED
    BY <2>2, ByCallNext
<1>3. ASSUME NEW c \in Call,
             \/ Lookup(c) \/ Hit(c) \/ Miss(c)
             \/ FetchSymbol(c) \/ FetchDecimals(c)
             \/ Store(c) \/ Stored(c) \/ Return(c) \/ Expire(c)
      PROVE  Kept(c)
  BY <1>1, <1>3, LookupKeeps, HitKeeps, MissKeeps, FetchKeeps, StoredKeeps,
     ReturnKeeps
<1>4. CASE \/ FatalError
           \/ UNCHANGED vars
  <2>1. UNCHANGED <<deltas, todo, cur, pc, meta, late, tokenCache, changes, fetched>>
        /\ up' \in BOOLEAN
    BY <1>1, <1>4 DEF FatalError, vars, TypeOK
  <2>2. TypeOK' /\ MapOK'
    BY <1>1, <2>1 DEF TypeOK, MapOK
  <2>3. ASSUME NEW c \in Call PROVE CallOK(c)'
    <3>1. CallOK(c)
      BY <1>1
    <3>2. TokenOf(c)' = TokenOf(c) /\ (Alone(c)' <=> Alone(c))
          /\ (Fetching(c)' <=> Fetching(c))
      BY <2>1 DEF TokenOf, Alone, Fetching
    <3> QED
      BY <2>1, <3>1, <3>2 DEF CallOK
  <2> QED
    BY <2>2, <2>3, ByCallNext
<1> QED
  BY <1>2, <1>3, <1>4, Steps

\* Every state the decoder can be in has calls and a map that agree
\* (token_decoder.go:139-153, 204-241).
THEOREM TokensCorrect == Spec => []TokenInv
  BY TokenInit, TokenNext, PTL DEF Spec

\* No token is ever shown under the name or in the unit of another one
\* (token_decoder.go:204-241).
THEOREM MetaNeverMixed == Spec => []MetaIsOfItsToken
<1>1. TokenInv => MetaIsOfItsToken
  BY DEF TokenInv
<1> QED
  BY <1>1, TokensCorrect, PTL

\* None of the deltas of a simulation gets lost on the way to its reply, and none
\* is shown twice: each is pending, current or converted, and a returned reply
\* has one change for each of them (token_decoder.go:139-153).
THEOREM DeltasConvertedOnce == Spec => []OneChangePerDelta
<1>1. TokenInv => OneChangePerDelta
  BY DEF TokenInv
<1> QED
  BY <1>1, TokensCorrect, PTL

\* A call that shares the map with nobody shows each token in one unit
\* (token_decoder.go:205-207, 239).
THEOREM UnitsAgree == Spec => []SameUnit
<1>1. TokenInv => SameUnit
  <2>1. SUFFICES ASSUME TokenInv, NEW c \in Call, Alone(c),
                        NEW x \in changes[c], NEW y \in changes[c],
                        x.delta[2] = y.delta[2]
                 PROVE  x.meta = y.meta
    BY DEF SameUnit
  <2>2. x.delta[2] \in Token
    BY <2>1 DEF TokenInv, TypeOK, Delta
  <2>3. x.meta \in tokenCache[x.delta[2]] /\ y.meta \in tokenCache[x.delta[2]]
    BY <2>1 DEF TokenInv, AloneInv
  <2> QED
    BY <2>1, <2>2, <2>3 DEF TokenInv, MetaInv
<1> QED
  BY <1>1, TokensCorrect, PTL
=============================================================================
