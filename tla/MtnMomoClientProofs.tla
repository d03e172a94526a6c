-------------------------- MODULE MtnMomoClientProofs --------------------------
(***************************************************************************)
(* For any number of processes, tokens and changes of the settings: what a *)
(* failed initiation and its log mean at MTN, what a query's verdict is    *)
(* worth, how long a call takes, and what a dead token can cost.           *)
(***************************************************************************)
EXTENDS MtnMomoClient, MsisdnProofs, TLAPS

RefusedOutcomes == {"rejected", "unauthorized", "not_sent", "bad_amount", "bad_number"}

(* What holds of the call c of process w, whose own request is r at MTN:   *)
(* nothing is there before the call ends, nor ever if it asks about        *)
(* another's, and then what the outcome says.                              *)
OutcomeSound(w, c, r) ==
    /\ c.outcome = "none" <=> c.pc # "done"
    /\ c.pc = "idle" => c.about = w
    /\ c.pc # "done" \/ c.about # w => r = "absent"
    /\ c.about = w => c.outcome \in InitiationOutcomes \cup {"none"}
    /\ c.about = w /\ c.outcome \in RefusedOutcomes => r = "absent"
    /\ c.about = w /\ c.sends = 0 => r = "absent"
    /\ c.outcome = "unknown" => c.about = w /\ c.sends # 0
    /\ c.outcome \in TakenIn => c.about = w /\ r # "absent"

(* What holds of a call about the request r.                               *)
VerdictSound(w, c, r) ==
    /\ c.about = w => ~c.known
    /\ c.known => r # "absent"
    /\ c.outcome = "Succeeded" => r = "successful"
    /\ c.outcome = "Failed" /\ c.known => r = "failed"

(* Of n tokens issued, the one a call fetches is newer than the call, and  *)
(* from its second pass on the call holds no other.                        *)
TokenSound(c, n) ==
    /\ c.oldest <= n /\ c.token <= n
    /\ c.pc \in {"store", "send"} => c.token >= 1
    /\ c.pc = "fetch" => c.token = 0
    /\ c.pc = "store" => c.token > c.oldest
    /\ c.pc = "send" /\ c.pass = 2 => c.token > c.oldest
    /\ c.outcome = "unauthorized" => c.token = 0 \/ c.token > c.oldest

(* One token request and one send per pass.                                *)
CountSound(c) ==
    /\ c.pc \in {"idle", "token", "fetch"} => c.fetches <= c.pass - 1
    /\ c.fetches <= c.pass
    /\ c.pc # "done" => c.sends = c.pass - 1

(* What MTN may make of a request.                                         *)
Later(r, s) == r = s \/ r = "absent" \/ (r = "pending" /\ s # "absent")

OutcomeInv == \A w \in Workers : OutcomeSound(w, client[w], request[w])

VerdictInv == \A w \in Workers : VerdictSound(w, client[w], request[client[w].about])

TokenInv == \A w \in Workers : TokenSound(client[w], Len(issued))

CountInv == \A w \in Workers : CountSound(client[w])

IInv == TypeOK /\ OutcomeInv /\ VerdictInv /\ TokenInv /\ CountInv

-----------------------------------------------------------------------------
LEMMA InitIInv == Init => IInv
<1> SUFFICES ASSUME Init PROVE IInv
  OBVIOUS
<1>1. issued \in Seq(1 .. MaxVersions) /\ Len(issued) = 0
  BY DEF Init
<1>2. client \in [Workers -> ClientType]
  BY BoundsAssumption DEF Init, ClientType, PCs
<1>3. \A w \in Workers :
        /\ client[w].oldest = 0 /\ client[w].token = 0 /\ client[w].pc = "idle"
        /\ client[w].outcome = "none" /\ client[w].about = w /\ client[w].known = FALSE
        /\ client[w].pass = 1 /\ client[w].fetches = 0 /\ client[w].sends = 0
        /\ request[w] = "absent"
  BY DEF Init
<1>4. TypeOK
  <2>1. settings \in [version : 1 .. MaxVersions, saved : 1 .. MaxVersions]
    BY BoundsAssumption DEF Init
  <2>2. cached \in 0 .. Len(issued) /\ dead \subseteq 1 .. Len(issued) /\ Len(issued) <= MaxTokens
    BY <1>1, BoundsAssumption DEF Init
  <2>3. request \in [Workers -> Requests]
    BY DEF Init, Requests
  <2>4. \A w \in Workers : ~At(w, "send")
    BY <1>3 DEF At
  <2> QED
    BY <1>1, <1>2, <2>1, <2>2, <2>3, <2>4 DEF TypeOK
<1>5. OutcomeInv
  BY <1>3 DEF OutcomeInv, OutcomeSound, TakenIn, RefusedOutcomes
<1>6. VerdictInv
  BY <1>3 DEF VerdictInv, VerdictSound
<1>7. TokenInv
  BY <1>1, <1>3 DEF TokenInv, TokenSound
<1>8. CountInv
  BY <1>3 DEF CountInv, CountSound
<1> QED
  BY <1>4, <1>5, <1>6, <1>7, <1>8 DEF IInv

(* What IInv says of one call.                                             *)
LEMMA CallHolds ==
  ASSUME IInv, NEW w \in Workers
  PROVE  /\ client[w] \in ClientType
         /\ OutcomeSound(w, client[w], request[w])
         /\ VerdictSound(w, client[w], request[client[w].about])
         /\ TokenSound(client[w], Len(issued))
         /\ CountSound(client[w])
         /\ request[w] \in Requests
         /\ issued \in Seq(1 .. MaxVersions)
         /\ Len(issued) \in 0 .. MaxTokens
         /\ cached \in 0 .. Len(issued)
         /\ settings.version \in 1 .. MaxVersions
  BY DEF IInv, TypeOK, OutcomeInv, VerdictInv, TokenInv, CountInv

(* More tokens issued change nothing for a call.                           *)
LEMMA MoreTokens ==
  ASSUME NEW c \in ClientType, NEW n \in Nat, NEW m \in Nat, n <= m, TokenSound(c, n)
  PROVE  TokenSound(c, m)
  BY DEF TokenSound, ClientType

(* A verdict outlives what MTN may still do.                               *)
LEMMA VerdictStays ==
  ASSUME NEW w, NEW c, NEW r, NEW s, Later(r, s), VerdictSound(w, c, r)
  PROVE  VerdictSound(w, c, s)
  BY DEF VerdictSound, Later

(* A step of one call, from the record it leaves.                          *)
LEMMA CallMoves ==
  ASSUME IInv, NEW w \in Workers, NEW c \in ClientType,
         client' = [client EXCEPT ![w] = c],
         issued' \in Seq(1 .. MaxVersions),
         Len(issued') \in Len(issued) .. MaxTokens,
         cached' \in 0 .. Len(issued'),
         UNCHANGED <<settings, dead>>,
         request' = request \/ request' = [request EXCEPT ![w] = "pending"],
         request[w] = "absent",
         OutcomeSound(w, c, request'[w]),
         VerdictSound(w, c, request'[c.about]),
         TokenSound(c, Len(issued')),
         CountSound(c)
  PROVE  IInv'
<1> USE DEF IInv
<1>1. client' \in [Workers -> ClientType] /\ client'[w] = c
      /\ \A v \in Workers : v # w => client'[v] = client[v]
  BY DEF TypeOK
<1>2. Len(issued) \in Nat /\ Len(issued') \in Nat /\ Len(issued) <= Len(issued')
  BY DEF TypeOK
<1>3. /\ request' \in [Workers -> Requests]
      /\ \A v \in Workers : Later(request[v], request'[v])
      /\ \A v \in Workers : v # w => request'[v] = request[v]
  <2>1. request \in [Workers -> Requests] /\ "pending" \in Requests
    BY DEF TypeOK, Requests
  <2>2. CASE request' = request
    BY <2>1, <2>2 DEF Later
  <2>3. CASE request' = [request EXCEPT ![w] = "pending"]
    <3>1. request' \in [Workers -> Requests] /\ request'[w] = "pending"
          /\ \A v \in Workers : v # w => request'[v] = request[v]
      BY <2>1, <2>3
    <3> QED
      BY <3>1 DEF Later
  <2> QED
    BY <2>2, <2>3
<1>4. TokenInv'
  <2> SUFFICES ASSUME NEW v \in Workers PROVE TokenSound(client'[v], Len(issued'))
    BY DEF TokenInv
  <2>1. CASE v = w
    BY <1>1, <2>1
  <2>2. CASE v # w
    <3>1. client[v] \in ClientType /\ TokenSound(client[v], Len(issued))
      BY CallHolds
    <3> QED
      BY <1>1, <1>2, <2>2, <3>1, MoreTokens
  <2> QED
    BY <2>1, <2>2
<1>5. OutcomeInv'
  BY <1>1, <1>3 DEF OutcomeInv
<1>6. VerdictInv'
  <2> SUFFICES ASSUME NEW v \in Workers
               PROVE  VerdictSound(v, client'[v], request'[client'[v].about])
    BY DEF VerdictInv
  <2>1. CASE v = w
    BY <1>1, <2>1
  <2>2. CASE v # w
    <3>1. /\ client'[v] = client[v] /\ client[v].about \in Workers
          /\ VerdictSound(v, client[v], request[client[v].about])
      BY <1>1, <2>2, CallHolds DEF ClientType
    <3>2. Later(request[client[v].about], request'[client[v].about])
      BY <1>3, <3>1
    <3> QED
      BY <3>1, <3>2, VerdictStays
  <2> QED
    BY <2>1, <2>2
<1>7. CountInv'
  BY <1>1 DEF CountInv
<1>8. \A v \in Workers : client'[v].pc = "send" => client'[v].token \in 1 .. Len(issued')
  BY <1>1, <1>2, <1>4 DEF TokenInv, TokenSound, ClientType
<1>9. TypeOK'
  BY <1>1, <1>2, <1>3, <1>8 DEF TypeOK, At
<1> QED
  BY <1>4, <1>5, <1>6, <1>7, <1>9

(* A step in which no token is issued and MTN is not reached.              *)
LEMMA CallGoesOn ==
  ASSUME IInv, NEW w \in Workers, NEW c \in ClientType,
         client[w].pc # "done",
         client' = [client EXCEPT ![w] = c],
         UNCHANGED <<settings, dead, issued, request>>,
         cached' \in 0 .. Len(issued),
         OutcomeSound(w, c, request[w]),
         VerdictSound(w, c, request[c.about]),
         TokenSound(c, Len(issued)),
         CountSound(c)
  PROVE  IInv'
<1>1. /\ issued \in Seq(1 .. MaxVersions)
      /\ Len(issued) \in Len(issued) .. MaxTokens
  BY CallHolds
<1>2. issued' = issued /\ request' = request
  OBVIOUS
<1>3. TokenSound(c, Len(issued')) /\ request[w] = "absent"
  BY <1>2, CallHolds DEF OutcomeSound
<1>4. issued' \in Seq(1 .. MaxVersions) /\ Len(issued') \in Len(issued) .. MaxTokens
      /\ cached' \in 0 .. Len(issued')
  BY <1>1, <1>2
<1>5. OutcomeSound(w, c, request'[w]) /\ VerdictSound(w, c, request'[c.about])
  BY <1>2
<1> QED
  BY <1>2, <1>3, <1>4, <1>5, CallMoves

(* The records a step leaves.  What it is about stays, with what was known *)
(* of that and the tokens there were.                                      *)
SameCall(c, r) == c.about = r.about /\ c.known = r.known /\ c.oldest = r.oldest

TokenSet(r, pc, t) == [r EXCEPT !.pc = pc, !.token = t]

Fetched(r, t, f) == [r EXCEPT !.pc = "store", !.token = t, !.fetches = f]

FetchFailed(r, x, f) == [r EXCEPT !.pc = "done", !.outcome = x, !.fetches = f]

Ended(r, x) == [r EXCEPT !.pc = "done", !.outcome = x]

Answered(r, x, s) == [r EXCEPT !.pc = "done", !.outcome = x, !.sends = s]

Retried(r, s) == [r EXCEPT !.pc = "token", !.pass = 2, !.sends = s]

Outcomes == InitiationOutcomes \cup QueryOutcomes \cup {"none"}

LEMMA WithToken ==
  ASSUME NEW r \in ClientType, NEW pc \in PCs, NEW t \in 0 .. MaxTokens,
         NEW c, c = TokenSet(r, pc, t)
  PROVE  /\ c \in ClientType /\ SameCall(c, r) /\ c.pc = pc /\ c.token = t
         /\ c.pass = r.pass /\ c.fetches = r.fetches /\ c.sends = r.sends
         /\ c.outcome = r.outcome
  BY DEF ClientType, SameCall, TokenSet

LEMMA WithFetched ==
  ASSUME NEW r \in ClientType, NEW f \in Nat, f <= 2, NEW t \in 0 .. MaxTokens,
         NEW c, c = Fetched(r, t, f)
  PROVE  /\ c \in ClientType /\ SameCall(c, r) /\ c.pc = "store" /\ c.token = t
         /\ c.pass = r.pass /\ c.fetches = f /\ c.sends = r.sends
         /\ c.outcome = r.outcome
<1>1. f \in 0 .. 2
  OBVIOUS
<1> QED
  BY <1>1 DEF ClientType, PCs, SameCall, Fetched

LEMMA WithFetchFailed ==
  ASSUME NEW r \in ClientType, NEW f \in Nat, f <= 2, NEW x \in Outcomes,
         NEW c, c = FetchFailed(r, x, f)
  PROVE  /\ c \in ClientType /\ SameCall(c, r) /\ c.pc = "done" /\ c.token = r.token
         /\ c.pass = r.pass /\ c.fetches = f /\ c.sends = r.sends
         /\ c.outcome = x
<1>1. f \in 0 .. 2
  OBVIOUS
<1> QED
  BY <1>1 DEF ClientType, PCs, SameCall, FetchFailed, Outcomes

LEMMA WithEnd ==
  ASSUME NEW r \in ClientType, NEW x \in Outcomes, NEW c, c = Ended(r, x)
  PROVE  /\ c \in ClientType /\ SameCall(c, r) /\ c.pc = "done" /\ c.token = r.token
         /\ c.pass = r.pass /\ c.fetches = r.fetches /\ c.sends = r.sends
         /\ c.outcome = x
  BY DEF ClientType, PCs, SameCall, Ended, Outcomes

LEMMA WithAnswer ==
  ASSUME NEW r \in ClientType, NEW s \in Nat, s <= 2, NEW x \in Outcomes,
         NEW c, c = Answered(r, x, s)
  PROVE  /\ c \in ClientType /\ SameCall(c, r) /\ c.pc = "done" /\ c.token = r.token
         /\ c.pass = r.pass /\ c.fetches = r.fetches /\ c.sends = s
         /\ c.outcome = x
<1>1. s \in 0 .. 2
  OBVIOUS
<1> QED
  BY <1>1 DEF ClientType, PCs, SameCall, Answered, Outcomes

LEMMA WithRetry ==
  ASSUME NEW r \in ClientType, NEW s \in Nat, s <= 2, NEW c, c = Retried(r, s)
  PROVE  /\ c \in ClientType /\ SameCall(c, r) /\ c.pc = "token" /\ c.token = r.token
         /\ c.pass = 2 /\ c.fetches = r.fetches /\ c.sends = s
         /\ c.outcome = r.outcome
<1>1. s \in 0 .. 2
  OBVIOUS
<1> QED
  BY <1>1 DEF ClientType, PCs, SameCall, Retried

-----------------------------------------------------------------------------
(* How a call begins.                                                      *)

(* The record a call begins with, about the request of process v.          *)
Begun(r, v, known, version, n) ==
    [r EXCEPT !.pc = "token", !.about = v, !.known = known, !.version = version, !.oldest = n]

LEMMA BegunHolds ==
  ASSUME NEW w \in Workers, NEW r \in ClientType, r.pc = "idle",
         NEW n \in 0 .. MaxTokens, TokenSound(r, n), CountSound(r), OutcomeSound(w, r, "absent"),
         NEW v \in Workers, NEW known \in BOOLEAN, NEW version \in 1 .. MaxVersions,
         NEW s \in Requests, known => v # w /\ s # "absent",
         NEW c, c = Begun(r, v, known, version, n)
  PROVE  /\ c \in ClientType /\ OutcomeSound(w, c, "absent") /\ VerdictSound(w, c, s)
         /\ TokenSound(c, n) /\ CountSound(c)
<1>1. /\ c \in ClientType /\ c.pc = "token" /\ c.about = v /\ c.known = known /\ c.oldest = n
      /\ c.pass = r.pass /\ c.fetches = r.fetches /\ c.sends = r.sends
      /\ c.token = r.token /\ c.outcome = r.outcome
  BY DEF ClientType, PCs, Begun
<1>2. r.outcome = "none"
  BY DEF OutcomeSound
<1>3. OutcomeSound(w, c, "absent")
  BY <1>1, <1>2 DEF OutcomeSound, TakenIn, RefusedOutcomes
<1>4. VerdictSound(w, c, s)
  BY <1>1, <1>2 DEF VerdictSound
<1>5. TokenSound(c, n)
  BY <1>1, <1>2 DEF TokenSound, ClientType
<1>6. CountSound(c)
  BY <1>1 DEF CountSound
<1> QED
  BY <1>1, <1>3, <1>4, <1>5, <1>6

LEMMA BeginKeeps ==
  ASSUME IInv, NEW w \in Workers, Begin(w)
  PROVE  IInv'
<1> DEFINE c == Begun(client[w], client[w].about, client[w].known, settings.version, Len(issued))
<1>1. /\ client[w] \in ClientType /\ client[w].pc = "idle"
      /\ OutcomeSound(w, client[w], request[w])
      /\ VerdictSound(w, client[w], request[client[w].about])
      /\ TokenSound(client[w], Len(issued)) /\ CountSound(client[w])
      /\ settings.version \in 1 .. MaxVersions /\ Len(issued) \in 0 .. MaxTokens
      /\ cached \in 0 .. Len(issued)
  BY CallHolds DEF Begin, At
<1>2. client' = [client EXCEPT ![w] = c]
  BY <1>1 DEF Begin, Begun, ClientType, IInv, TypeOK
<1>3. client[w].about \in Workers /\ client[w].known \in BOOLEAN /\ c.about = client[w].about
  BY <1>1 DEF ClientType, Begun
<1>4. request[w] = "absent" /\ request[client[w].about] \in Requests
  BY <1>1, <1>3, CallHolds DEF OutcomeSound
<1>5. client[w].known => client[w].about # w /\ request[client[w].about] # "absent"
  BY <1>1 DEF VerdictSound
<1>6. /\ c \in ClientType /\ OutcomeSound(w, c, "absent")
      /\ VerdictSound(w, c, request[client[w].about])
      /\ TokenSound(c, Len(issued)) /\ CountSound(c)
  BY <1>1, <1>3, <1>4, <1>5, BegunHolds
<1> HIDE DEF c
<1> QED
  BY <1>1, <1>2, <1>3, <1>4, <1>6, CallGoesOn DEF Begin

LEMMA BeginQueryKeeps ==
  ASSUME IInv, NEW w \in Workers, NEW v \in Workers, BeginQuery(w, v)
  PROVE  IInv'
<1> DEFINE known == client[v].outcome \in TakenIn
           c == Begun(client[w], v, known, settings.version, Len(issued))
<1>1. /\ client[w] \in ClientType /\ client[w].pc = "idle" /\ v # w
      /\ OutcomeSound(w, client[w], request[w])
      /\ TokenSound(client[w], Len(issued)) /\ CountSound(client[w])
      /\ settings.version \in 1 .. MaxVersions /\ Len(issued) \in 0 .. MaxTokens
      /\ cached \in 0 .. Len(issued)
  BY CallHolds DEF BeginQuery, At
<1>2. client' = [client EXCEPT ![w] = c]
  BY <1>1 DEF BeginQuery, Begun, IInv, TypeOK
<1>3. c.about = v
  BY <1>1 DEF ClientType, Begun
<1>4. request[w] = "absent" /\ request[v] \in Requests
  BY <1>1, CallHolds DEF OutcomeSound
<1>5. known \in BOOLEAN /\ (known => v # w /\ request[v] # "absent")
  BY <1>1, CallHolds DEF OutcomeSound
<1> HIDE DEF known
<1>6. /\ c \in ClientType /\ OutcomeSound(w, c, "absent") /\ VerdictSound(w, c, request[v])
      /\ TokenSound(c, Len(issued)) /\ CountSound(c)
  BY <1>1, <1>4, <1>5, BegunHolds
<1> HIDE DEF c
<1> QED
  BY <1>1, <1>2, <1>3, <1>4, <1>6, CallGoesOn DEF BeginQuery

LEMMA RefuseLocallyKeeps ==
  ASSUME IInv, NEW w \in Workers, RefuseLocally(w)
  PROVE  IInv'
<1>1. PICK x \in {"bad_amount", "bad_number"} : End(w, x)
  BY DEF RefuseLocally
<1> DEFINE r == client[w]
           c == Ended(r, x)
<1>2. /\ r \in ClientType /\ r.pc = "idle"
      /\ OutcomeSound(w, r, request[w]) /\ VerdictSound(w, r, request[r.about])
      /\ TokenSound(r, Len(issued)) /\ CountSound(r)
      /\ Len(issued) \in 0 .. MaxTokens /\ cached \in 0 .. Len(issued)
  BY CallHolds DEF RefuseLocally, At
<1>3. client' = [client EXCEPT ![w] = c]
  BY <1>1 DEF Ended, End, IInv, TypeOK
<1>4. c = Ended(r, x) /\ x \in Outcomes
  BY DEF Outcomes, InitiationOutcomes
<1> HIDE DEF c
<1>5. /\ c \in ClientType /\ SameCall(c, r) /\ c.pc = "done" /\ c.token = r.token
      /\ c.pass = r.pass /\ c.fetches = r.fetches /\ c.sends = r.sends /\ c.outcome = x
  BY <1>2, <1>4, WithEnd
<1>6. request[w] = "absent"
  BY <1>2 DEF OutcomeSound
<1>7. OutcomeSound(w, c, request[w])
  BY <1>5, <1>6 DEF OutcomeSound, TakenIn, InitiationOutcomes
<1>8. VerdictSound(w, c, request[c.about])
  BY <1>2, <1>5 DEF VerdictSound, SameCall
<1>9. TokenSound(c, Len(issued)) /\ CountSound(c)
  BY <1>2, <1>5 DEF TokenSound, CountSound, SameCall
<1> QED
  BY <1>2, <1>3, <1>5, <1>7, <1>8, <1>9, CallGoesOn DEF RefuseLocally

-----------------------------------------------------------------------------
(* Where the token comes from.  While a call is on its way to be sent, its *)
(* outcome stays "none" and its request absent.                            *)

LEMMA OnItsWay ==
  ASSUME NEW w \in Workers, NEW r \in ClientType, NEW c \in ClientType, NEW s, NEW t,
         r.pc # "done", OutcomeSound(w, r, s), VerdictSound(w, r, t),
         c.pc \notin {"idle", "done"}, c.outcome = r.outcome, SameCall(c, r)
  PROVE  OutcomeSound(w, c, s) /\ VerdictSound(w, c, t) /\ c.outcome = "none"
<1>1. r.outcome = "none" /\ s = "absent"
  BY DEF OutcomeSound
<1>2. OutcomeSound(w, c, s)
  BY <1>1 DEF OutcomeSound, TakenIn, RefusedOutcomes
<1>3. VerdictSound(w, c, t)
  BY DEF VerdictSound, SameCall
<1> QED
  BY <1>1, <1>2, <1>3

LEMMA ReadCacheKeeps ==
  ASSUME IInv, NEW w \in Workers, ReadCache(w)
  PROVE  IInv'
<1> DEFINE r == client[w]
           c == TokenSet(r, "send", cached)
<1>1. /\ r \in ClientType /\ r.pc = "token" /\ r.pass = 1 /\ cached # 0
      /\ OutcomeSound(w, r, request[w]) /\ VerdictSound(w, r, request[r.about])
      /\ TokenSound(r, Len(issued)) /\ CountSound(r)
      /\ Len(issued) \in 0 .. MaxTokens /\ cached \in 0 .. Len(issued)
  BY CallHolds DEF ReadCache, MayReadCache, At
<1>2. cached \in 0 .. MaxTokens /\ cached >= 1 /\ cached <= Len(issued) /\ "send" \in PCs
  BY <1>1, BoundsAssumption DEF PCs
<1>3. client' = [client EXCEPT ![w] = c] /\ c = TokenSet(r, "send", cached)
  BY DEF TokenSet, ReadCache, IInv, TypeOK
<1> HIDE DEF c
<1>4. /\ c \in ClientType /\ SameCall(c, r) /\ c.pc = "send" /\ c.token = cached
      /\ c.pass = 1 /\ c.fetches = r.fetches /\ c.sends = r.sends /\ c.outcome = r.outcome
  BY <1>1, <1>2, <1>3, WithToken
<1>5. /\ OutcomeSound(w, c, request[w]) /\ VerdictSound(w, c, request[c.about])
      /\ c.outcome = "none"
  BY <1>1, <1>4, OnItsWay DEF SameCall
<1>6. TokenSound(c, Len(issued))
  BY <1>1, <1>2, <1>4, <1>5 DEF TokenSound, SameCall
<1>7. CountSound(c)
  BY <1>1, <1>4 DEF CountSound, ClientType
<1> QED
  BY <1>1, <1>3, <1>4, <1>5, <1>6, <1>7, CallGoesOn DEF ReadCache

LEMMA DropCachedKeeps ==
  ASSUME IInv, NEW w \in Workers, DropCached(w)
  PROVE  IInv'
<1> DEFINE r == client[w]
           c == TokenSet(r, "fetch", 0)
<1>1. /\ r \in ClientType /\ r.pc = "token"
      /\ OutcomeSound(w, r, request[w]) /\ VerdictSound(w, r, request[r.about])
      /\ TokenSound(r, Len(issued)) /\ CountSound(r)
      /\ Len(issued) \in 0 .. MaxTokens /\ cached \in 0 .. Len(issued)
      /\ cached' \in 0 .. Len(issued)
  BY CallHolds DEF DropCached, At
<1>2. 0 \in 0 .. MaxTokens /\ "fetch" \in PCs
  BY BoundsAssumption DEF PCs
<1>3. client' = [client EXCEPT ![w] = c] /\ c = TokenSet(r, "fetch", 0)
  BY DEF TokenSet, DropCached, IInv, TypeOK
<1> HIDE DEF c
<1>4. /\ c \in ClientType /\ SameCall(c, r) /\ c.pc = "fetch" /\ c.token = 0
      /\ c.pass = r.pass /\ c.fetches = r.fetches /\ c.sends = r.sends
      /\ c.outcome = r.outcome
  BY <1>1, <1>2, <1>3, WithToken
<1>5. /\ OutcomeSound(w, c, request[w]) /\ VerdictSound(w, c, request[c.about])
      /\ c.outcome = "none"
  BY <1>1, <1>4, OnItsWay DEF SameCall
<1>6. TokenSound(c, Len(issued))
  BY <1>1, <1>4, <1>5 DEF TokenSound, SameCall
<1>7. CountSound(c)
  BY <1>1, <1>4 DEF CountSound
<1> QED
  BY <1>1, <1>3, <1>4, <1>5, <1>6, <1>7, CallGoesOn DEF DropCached

LEMMA FetchKeeps ==
  ASSUME IInv, NEW w \in Workers, Fetch(w)
  PROVE  IInv'
<1> DEFINE n == Len(issued')
           r == client[w]
           f == r.fetches + 1
           c == Fetched(r, n, f)
<1>1. /\ r \in ClientType /\ r.pc = "fetch" /\ Len(issued) < MaxTokens
      /\ OutcomeSound(w, r, request[w]) /\ VerdictSound(w, r, request[r.about])
      /\ TokenSound(r, Len(issued)) /\ CountSound(r)
      /\ Len(issued) \in 0 .. MaxTokens /\ cached \in 0 .. Len(issued)
      /\ r.version \in 1 .. MaxVersions /\ r.oldest \in Nat /\ request[w] = "absent"
  BY CallHolds DEF Fetch, At, ClientType, OutcomeSound
<1>2. issued' \in Seq(1 .. MaxVersions) /\ n = Len(issued) + 1
  BY <1>1, CallHolds DEF Fetch
<1>3. client' = [client EXCEPT ![w] = c] /\ c = Fetched(r, n, f)
  BY DEF Fetched, Fetch, IInv, TypeOK
<1> HIDE DEF n, c
<1>4. n \in 0 .. MaxTokens /\ n \in Len(issued) .. MaxTokens /\ cached \in 0 .. n
  BY <1>1, <1>2, BoundsAssumption
<1>5. f \in Nat /\ f <= 2 /\ f <= r.pass
  BY <1>1 DEF CountSound, ClientType
<1> HIDE DEF f
<1>6. /\ c \in ClientType /\ SameCall(c, r) /\ c.pc = "store" /\ c.token = n
      /\ c.pass = r.pass /\ c.fetches = f /\ c.sends = r.sends /\ c.outcome = r.outcome
  <2>1. r \in ClientType /\ c = Fetched(r, n, f) /\ n \in 0 .. MaxTokens /\ f \in Nat /\ f <= 2
    BY <1>1, <1>3, <1>4, <1>5
  <2> HIDE DEF r
  <2> QED
    BY <2>1, WithFetched
<1>7. /\ OutcomeSound(w, c, request[w]) /\ VerdictSound(w, c, request[c.about])
      /\ c.outcome = "none"
  BY <1>1, <1>6, OnItsWay DEF SameCall
<1>8. TokenSound(c, n)
  BY <1>1, <1>2, <1>6, <1>7 DEF TokenSound, SameCall
<1>9. CountSound(c)
  BY <1>1, <1>5, <1>6 DEF CountSound
<1>10. request' = request
  BY DEF Fetch
<1>11. OutcomeSound(w, c, request'[w]) /\ VerdictSound(w, c, request'[c.about])
  BY <1>7, <1>10
<1> QED
  BY <1>1, <1>2, <1>3, <1>4, <1>6, <1>8, <1>9, <1>10, <1>11, CallMoves DEF Fetch, n

LEMMA FetchFailsKeeps ==
  ASSUME IInv, NEW w \in Workers, FetchFails(w)
  PROVE  IInv'
<1> DEFINE r == client[w]
           f == r.fetches + 1
<1>1. PICK x \in {IF Initiates(w) THEN "not_sent" ELSE "no_answer", "unauthorized"} :
        client' = [client EXCEPT ![w].pc = "done", ![w].outcome = x, ![w].fetches = f]
  BY DEF FetchFails
<1> DEFINE c == FetchFailed(r, x, f)
<1>2. /\ r \in ClientType /\ r.pc = "fetch"
      /\ OutcomeSound(w, r, request[w]) /\ VerdictSound(w, r, request[r.about])
      /\ TokenSound(r, Len(issued)) /\ CountSound(r)
      /\ Len(issued) \in 0 .. MaxTokens /\ cached \in 0 .. Len(issued)
  BY CallHolds DEF FetchFails, At
<1>3. client' = [client EXCEPT ![w] = c] /\ c = FetchFailed(r, x, f)
  BY <1>1 DEF FetchFailed, IInv, TypeOK
<1> HIDE DEF c
<1>4. f \in Nat /\ f <= 2 /\ f <= r.pass
  <2>1. r.fetches \in 0 .. 2 /\ r.pass \in {1, 2} /\ r.fetches <= r.pass - 1
    BY <1>2 DEF CountSound, ClientType
  <2> QED
    BY <2>1
<1>5. /\ x \in Outcomes /\ x \notin TakenIn /\ x # "none"
      /\ x # "Succeeded" /\ x # "Failed" /\ x # "unknown"
      /\ r.about = w => x \in {"not_sent", "unauthorized"}
  BY DEF Outcomes, InitiationOutcomes, QueryOutcomes, TakenIn, Initiates
<1> HIDE DEF f
<1>6. /\ c \in ClientType /\ SameCall(c, r) /\ c.pc = "done" /\ c.token = r.token
      /\ c.pass = r.pass /\ c.fetches = f /\ c.sends = r.sends /\ c.outcome = x
  BY <1>2, <1>3, <1>4, <1>5, WithFetchFailed
<1>7. request[w] = "absent"
  BY <1>2 DEF OutcomeSound
<1>8. OutcomeSound(w, c, request[w])
  BY <1>5, <1>6, <1>7 DEF OutcomeSound, InitiationOutcomes, SameCall
<1>9. VerdictSound(w, c, request[c.about])
  BY <1>2, <1>5, <1>6 DEF VerdictSound, SameCall
<1>10. TokenSound(c, Len(issued)) /\ CountSound(c)
  BY <1>2, <1>4, <1>6 DEF TokenSound, CountSound, SameCall
<1> QED
  BY <1>2, <1>3, <1>6, <1>8, <1>9, <1>10, CallGoesOn DEF FetchFails

LEMMA StoreKeeps ==
  ASSUME IInv, NEW w \in Workers, Store(w)
  PROVE  IInv'
<1> DEFINE r == client[w]
           c == TokenSet(r, "send", r.token)
<1>1. /\ r \in ClientType /\ r.pc = "store"
      /\ OutcomeSound(w, r, request[w]) /\ VerdictSound(w, r, request[r.about])
      /\ TokenSound(r, Len(issued)) /\ CountSound(r)
      /\ Len(issued) \in 0 .. MaxTokens /\ cached \in 0 .. Len(issued)
  BY CallHolds DEF Store, At
<1>2. r.token \in 0 .. MaxTokens /\ r.token \in 0 .. Len(issued) /\ "send" \in PCs
  BY <1>1 DEF ClientType, PCs, TokenSound
<1>3. client' = [client EXCEPT ![w] = c] /\ c = TokenSet(r, "send", r.token)
  <2>1. client' = [client EXCEPT ![w] = [r EXCEPT !.pc = "send"]]
    BY DEF Store, Go, IInv, TypeOK
  <2>2. [r EXCEPT !.pc = "send"] = [r EXCEPT !.pc = "send", !.token = r.token]
    BY <1>1 DEF ClientType
  <2> QED
    BY <2>1, <2>2 DEF TokenSet
<1>4. cached' \in 0 .. Len(issued)
  BY <1>1, <1>2 DEF Store
<1> HIDE DEF c
<1>5. /\ c \in ClientType /\ SameCall(c, r) /\ c.pc = "send" /\ c.token = r.token
      /\ c.pass = r.pass /\ c.fetches = r.fetches /\ c.sends = r.sends
      /\ c.outcome = r.outcome
  BY <1>1, <1>2, <1>3, WithToken
<1>6. /\ OutcomeSound(w, c, request[w]) /\ VerdictSound(w, c, request[c.about])
      /\ c.outcome = "none"
  BY <1>1, <1>5, OnItsWay DEF SameCall
<1>7. TokenSound(c, Len(issued))
  BY <1>1, <1>5, <1>6 DEF TokenSound, SameCall
<1>8. CountSound(c)
  BY <1>1, <1>5 DEF CountSound
<1> QED
  BY <1>1, <1>3, <1>4, <1>5, <1>6, <1>7, <1>8, CallGoesOn DEF Store

-----------------------------------------------------------------------------
(* What MTN answers.                                                       *)

(* An answer's record, once the send is counted.                           *)
LEMMA AnsweredHolds ==
  ASSUME NEW r \in ClientType, r.pc = "send", NEW n \in Nat, TokenSound(r, n), CountSound(r),
         NEW x \in Outcomes, x = "unauthorized" => r.pass = 2,
         NEW s, s = r.sends + 1, NEW c, c = Answered(r, x, s)
  PROVE  /\ c \in ClientType /\ SameCall(c, r) /\ c.pc = "done" /\ c.outcome = x
         /\ c.sends # 0 /\ TokenSound(c, n) /\ CountSound(c)
<1>1. s \in Nat /\ s <= 2 /\ s # 0
  BY DEF CountSound, ClientType
<1>2. /\ c \in ClientType /\ SameCall(c, r) /\ c.pc = "done" /\ c.token = r.token
      /\ c.pass = r.pass /\ c.fetches = r.fetches /\ c.sends = s /\ c.outcome = x
  BY <1>1, WithAnswer
<1>3. TokenSound(c, n)
  BY <1>2 DEF TokenSound, SameCall
<1>4. CountSound(c)
  BY <1>2 DEF CountSound
<1> QED
  BY <1>1, <1>2, <1>3, <1>4

LEMMA SendKeeps ==
  ASSUME IInv, NEW w \in Workers, Send(w)
  PROVE  IInv'
<1> DEFINE r == client[w]
           s == r.sends + 1
<1>1. PICK answer \in {"202", "409", "4xx", "unknown"} :
        Answers(w, answer) /\ Sent(w, OutcomeOf(answer))
  BY DEF Send
<1> DEFINE x == OutcomeOf(answer)
           c == Answered(r, x, s)
<1>2. /\ r \in ClientType /\ r.pc = "send" /\ r.about = w
      /\ OutcomeSound(w, r, request[w]) /\ VerdictSound(w, r, request[r.about])
      /\ TokenSound(r, Len(issued)) /\ CountSound(r)
      /\ Len(issued) \in 0 .. MaxTokens /\ cached \in 0 .. Len(issued)
      /\ issued \in Seq(1 .. MaxVersions)
  BY CallHolds DEF Send, At, Initiates
<1>3. client' = [client EXCEPT ![w] = c] /\ c = Answered(r, x, s)
  BY <1>1 DEF Answered, Sent, IInv, TypeOK
<1>4. x \in {"accepted", "duplicate_reference", "rejected", "unknown"}
  BY DEF OutcomeOf
<1>5. /\ x \in TakenIn => request' = [request EXCEPT ![w] = "pending"]
      /\ x = "rejected" => request' = request
      /\ request' = request \/ request' = [request EXCEPT ![w] = "pending"]
  BY <1>1 DEF OutcomeOf, Answers, TakenIn
<1>6. request[w] = "absent" /\ request \in [Workers -> Requests]
  BY <1>2 DEF OutcomeSound, IInv, TypeOK
<1>7. /\ x \in TakenIn => request'[w] = "pending"
      /\ x = "rejected" => request'[w] = "absent"
  BY <1>5, <1>6
<1> HIDE DEF x, c
<1>8. /\ c \in ClientType /\ SameCall(c, r) /\ c.pc = "done" /\ c.outcome = x
      /\ c.sends # 0 /\ TokenSound(c, Len(issued)) /\ CountSound(c)
  <2>1. x \in Outcomes /\ x # "unauthorized"
    BY <1>4 DEF Outcomes, InitiationOutcomes
  <2> HIDE DEF s
  <2>2. s = r.sends + 1
    BY DEF s
  <2> QED
    BY <1>2, <1>3, <2>1, <2>2, AnsweredHolds
<1>9. OutcomeSound(w, c, request'[w])
  BY <1>2, <1>4, <1>7, <1>8
     DEF OutcomeSound, TakenIn, InitiationOutcomes, RefusedOutcomes, SameCall
<1>10. VerdictSound(w, c, request'[c.about])
  BY <1>2, <1>4, <1>8 DEF VerdictSound, SameCall
<1>11. /\ issued' \in Seq(1 .. MaxVersions) /\ Len(issued') \in Len(issued) .. MaxTokens
       /\ cached' \in 0 .. Len(issued') /\ TokenSound(c, Len(issued'))
       /\ UNCHANGED <<settings, dead>>
  <2>1. issued' = issued /\ cached' = cached /\ UNCHANGED <<settings, dead>>
    BY DEF Send
  <2>2. Len(issued) \in Len(issued) .. MaxTokens
    BY <1>2
  <2> QED
    BY <1>2, <1>8, <2>1, <2>2
<1> QED
  BY <1>3, <1>5, <1>6, <1>8, <1>9, <1>10, <1>11, CallMoves

LEMMA AskKeeps ==
  ASSUME IInv, NEW w \in Workers, Ask(w)
  PROVE  IInv'
<1> DEFINE r == client[w]
           s == r.sends + 1
<1>1. PICK answer \in {request[client[w].about], "unreadable"} : Sent(w, StatusOf(answer))
  BY DEF Ask
<1> DEFINE x == StatusOf(answer)
           c == Answered(r, x, s)
<1>2. /\ r \in ClientType /\ r.pc = "send" /\ r.about # w
      /\ OutcomeSound(w, r, request[w]) /\ VerdictSound(w, r, request[r.about])
      /\ TokenSound(r, Len(issued)) /\ CountSound(r)
      /\ Len(issued) \in 0 .. MaxTokens /\ cached \in 0 .. Len(issued)
  BY CallHolds DEF Ask, At, Initiates
<1>3. client' = [client EXCEPT ![w] = c] /\ c = Answered(r, x, s)
  BY <1>1 DEF Answered, Sent, IInv, TypeOK
<1>4. /\ x \in {"Pending", "Succeeded", "Failed", "no_answer"}
      /\ x = "Succeeded" => request[r.about] = "successful"
      /\ x = "Failed" => request[r.about] \in {"failed", "absent"}
  BY DEF StatusOf
<1>5. request[w] = "absent"
  BY <1>2 DEF OutcomeSound
<1> HIDE DEF x, c
<1>6. /\ c \in ClientType /\ SameCall(c, r) /\ c.pc = "done" /\ c.outcome = x
      /\ c.sends # 0 /\ TokenSound(c, Len(issued)) /\ CountSound(c)
  <2>1. x \in Outcomes /\ x # "unauthorized"
    BY <1>4 DEF Outcomes, QueryOutcomes
  <2> HIDE DEF s
  <2>2. s = r.sends + 1
    BY DEF s
  <2> QED
    BY <1>2, <1>3, <2>1, <2>2, AnsweredHolds
<1>7. OutcomeSound(w, c, request[w])
  BY <1>2, <1>4, <1>5, <1>6 DEF OutcomeSound, TakenIn, SameCall
<1>8. VerdictSound(w, c, request[c.about])
  BY <1>2, <1>4, <1>6 DEF VerdictSound, SameCall
<1> QED
  BY <1>2, <1>3, <1>6, <1>7, <1>8, CallGoesOn DEF Ask

LEMMA RefusedKeeps ==
  ASSUME IInv, NEW w \in Workers, Refused(w)
  PROVE  IInv'
<1> DEFINE r == client[w]
           s == r.sends + 1
<1>1. /\ r \in ClientType /\ r.pc = "send"
      /\ OutcomeSound(w, r, request[w]) /\ VerdictSound(w, r, request[r.about])
      /\ TokenSound(r, Len(issued)) /\ CountSound(r)
      /\ Len(issued) \in 0 .. MaxTokens /\ cached \in 0 .. Len(issued)
  BY CallHolds DEF Refused, At
<1>2. request[w] = "absent"
  BY <1>1 DEF OutcomeSound
<1>3. CASE client[w].pass = 2
  <2> DEFINE c == Answered(r, "unauthorized", s)
  <2>1. client' = [client EXCEPT ![w] = c] /\ c = Answered(r, "unauthorized", s)
    BY <1>3 DEF Refused, Answered, Sent, IInv, TypeOK
  <2> HIDE DEF c
  <2>2. /\ c \in ClientType /\ SameCall(c, r) /\ c.pc = "done" /\ c.outcome = "unauthorized"
        /\ c.sends # 0 /\ TokenSound(c, Len(issued)) /\ CountSound(c)
    <3>1. "unauthorized" \in Outcomes
      BY DEF Outcomes, QueryOutcomes
    <3> HIDE DEF s
    <3>2. s = r.sends + 1
      BY DEF s
    <3> QED
      BY <1>1, <1>3, <2>1, <3>1, <3>2, AnsweredHolds
  <2>3. OutcomeSound(w, c, request[w])
    BY <1>2, <2>2 DEF OutcomeSound, TakenIn, InitiationOutcomes
  <2>4. VerdictSound(w, c, request[c.about])
    BY <1>1, <2>2 DEF VerdictSound, SameCall
  <2> QED
    BY <1>1, <2>1, <2>2, <2>3, <2>4, CallGoesOn DEF Refused
<1>4. CASE client[w].pass # 2
  <2> DEFINE c == Retried(r, s)
  <2>1. client' = [client EXCEPT ![w] = c] /\ c = Retried(r, s)
    BY <1>4 DEF Refused, Retried, IInv, TypeOK
  <2>2. r.pass = 1 /\ s = 1 /\ s \in Nat /\ r.fetches <= 1
    BY <1>1, <1>4 DEF ClientType, CountSound
  <2> HIDE DEF c, s
  <2>3. /\ c \in ClientType /\ SameCall(c, r) /\ c.pc = "token" /\ c.token = r.token
        /\ c.pass = 2 /\ c.fetches = r.fetches /\ c.sends = s /\ c.outcome = r.outcome
    BY <1>1, <2>1, <2>2, WithRetry
  <2>4. /\ OutcomeSound(w, c, request[w]) /\ VerdictSound(w, c, request[c.about])
        /\ c.outcome = "none"
    BY <1>1, <2>3, OnItsWay DEF SameCall
  <2>5. TokenSound(c, Len(issued))
    BY <1>1, <2>3, <2>4 DEF TokenSound, SameCall
  <2>6. CountSound(c)
    BY <2>2, <2>3 DEF CountSound, ClientType
  <2> QED
    BY <1>1, <2>1, <2>3, <2>4, <2>5, <2>6, CallGoesOn DEF Refused
<1> QED
  BY <1>3, <1>4

-----------------------------------------------------------------------------
(* What MTN decides moves a request on, and touches no call.               *)
LEMMA DecideKeeps ==
  ASSUME IInv, NEW w \in Workers, NEW verdict \in {"successful", "failed"}, Decide(w, verdict)
  PROVE  IInv'
<1>1. /\ request[w] = "pending" /\ request' = [request EXCEPT ![w] = verdict]
      /\ UNCHANGED <<settings, cached, issued, dead, client>>
  BY DEF Decide
<1>2. request \in [Workers -> Requests]
  BY DEF IInv, TypeOK
<1>3. /\ request' \in [Workers -> Requests]
      /\ \A v \in Workers : Later(request[v], request'[v])
      /\ \A v \in Workers : (request'[v] = "absent") <=> (request[v] = "absent")
  BY <1>1, <1>2 DEF Requests, Later
<1>4. OutcomeInv'
  <2> SUFFICES ASSUME NEW v \in Workers PROVE OutcomeSound(v, client[v], request'[v])
    BY <1>1 DEF OutcomeInv
  <2> QED
    BY <1>3, CallHolds DEF OutcomeSound
<1>5. VerdictInv'
  <2> SUFFICES ASSUME NEW v \in Workers
               PROVE  VerdictSound(v, client[v], request'[client[v].about])
    BY <1>1 DEF VerdictInv
  <2>1. client[v].about \in Workers /\ VerdictSound(v, client[v], request[client[v].about])
    BY CallHolds DEF ClientType
  <2> QED
    BY <1>3, <2>1, VerdictStays
<1>6. TokenInv' /\ CountInv'
  BY <1>1 DEF IInv, TokenInv, CountInv
<1>7. TypeOK'
  BY <1>1, <1>3 DEF IInv, TypeOK, At
<1> QED
  BY <1>4, <1>5, <1>6, <1>7 DEF IInv

(* A request that arrives after its sender stopped waiting.                *)
LEMMA ArriveLateKeeps ==
  ASSUME IInv, NEW w \in Workers, ArriveLate(w)
  PROVE  IInv'
<1>1. /\ client[w].outcome = "unknown" /\ client[w].pc = "done"
      /\ request[w] = "absent" /\ request' = [request EXCEPT ![w] = "pending"]
      /\ UNCHANGED <<settings, cached, issued, dead, client>>
  BY DEF ArriveLate, At
<1>2. request \in [Workers -> Requests]
  BY DEF IInv, TypeOK
<1>3. /\ request' \in [Workers -> Requests] /\ request'[w] = "pending"
      /\ \A v \in Workers : v # w => request'[v] = request[v]
      /\ \A v \in Workers : Later(request[v], request'[v])
  BY <1>1, <1>2 DEF Requests, Later
<1>4. OutcomeInv'
  <2> SUFFICES ASSUME NEW v \in Workers PROVE OutcomeSound(v, client[v], request'[v])
    BY <1>1 DEF OutcomeInv
  <2>1. OutcomeSound(v, client[v], request[v])
    BY CallHolds
  <2>2. CASE v # w
    BY <1>3, <2>1, <2>2
  <2>3. CASE v = w
    BY <1>1, <1>3, <2>1, <2>3 DEF OutcomeSound, TakenIn, RefusedOutcomes
  <2> QED
    BY <2>2, <2>3
<1>5. VerdictInv'
  <2> SUFFICES ASSUME NEW v \in Workers
               PROVE  VerdictSound(v, client[v], request'[client[v].about])
    BY <1>1 DEF VerdictInv
  <2>1. client[v].about \in Workers /\ VerdictSound(v, client[v], request[client[v].about])
    BY CallHolds DEF ClientType
  <2> QED
    BY <1>3, <2>1, VerdictStays
<1>6. TokenInv' /\ CountInv'
  BY <1>1 DEF IInv, TokenInv, CountInv
<1>7. TypeOK'
  BY <1>1, <1>3 DEF IInv, TypeOK, At
<1> QED
  BY <1>4, <1>5, <1>6, <1>7 DEF IInv

(* Nor do a token's end and the administrator's steps.                     *)
LEMMA OthersKeep ==
  ASSUME IInv,
         \/ \E t \in 1 .. MaxTokens : Expire(t)
         \/ LeaveCache \/ SaveSettings \/ CommitSettings
  PROVE  IInv'
<1> USE DEF IInv
<1>1. client' = client /\ issued' = issued /\ request' = request
  BY DEF Expire, LeaveCache, SaveSettings, CommitSettings
<1>2. OutcomeInv' /\ VerdictInv' /\ TokenInv' /\ CountInv'
  BY <1>1 DEF OutcomeInv, VerdictInv, TokenInv, CountInv
<1>3. settings' \in [version : 1 .. MaxVersions, saved : 1 .. MaxVersions]
  <2>1. CASE SaveSettings
    BY <2>1, BoundsAssumption DEF SaveSettings, TypeOK
  <2>2. CASE CommitSettings
    BY <2>2 DEF CommitSettings, TypeOK
  <2>3. CASE LeaveCache \/ \E t \in 1 .. MaxTokens : Expire(t)
    BY <2>3 DEF LeaveCache, Expire, TypeOK
  <2> QED
    BY <2>1, <2>2, <2>3 DEF TypeOK
<1>4. cached' \in 0 .. Len(issued) /\ dead' \subseteq 1 .. Len(issued)
  BY DEF Expire, LeaveCache, SaveSettings, CommitSettings, TypeOK
<1>5. TypeOK'
  BY <1>1, <1>3, <1>4 DEF TypeOK, At
<1> QED
  BY <1>2, <1>5

-----------------------------------------------------------------------------
LEMMA NextIInv == IInv /\ [Next]_vars => IInv'
<1> SUFFICES ASSUME IInv, [Next]_vars PROVE IInv'
  OBVIOUS
<1>1. CASE \E w \in Workers : CallStep(w)
  <2> SUFFICES ASSUME NEW w \in Workers, CallStep(w) PROVE IInv'
    BY <1>1
  <2>1. CASE \E v \in Workers : BeginQuery(w, v)
    BY <2>1, BeginQueryKeeps
  <2> QED
    BY <2>1, BeginKeeps, RefuseLocallyKeeps, ReadCacheKeeps, DropCachedKeeps, FetchKeeps,
       FetchFailsKeeps, StoreKeeps, SendKeeps, AskKeeps, RefusedKeeps DEF CallStep
<1>2. CASE (\E t \in 1 .. MaxTokens : Expire(t)) \/ LeaveCache \/ SaveSettings
             \/ CommitSettings
  BY <1>2, OthersKeep
<1>3. CASE \E w \in Workers, verdict \in {"successful", "failed"} : Decide(w, verdict)
  BY <1>3, DecideKeeps
<1>5. CASE \E w \in Workers : ArriveLate(w)
  BY <1>5, ArriveLateKeeps
<1>4. CASE UNCHANGED vars
  BY <1>4 DEF vars, IInv, TypeOK, OutcomeInv, VerdictInv, TokenInv, CountInv, At
<1> QED
  BY <1>1, <1>2, <1>3, <1>4, <1>5 DEF Next

LEMMA Inductive == Spec => []IInv
  BY InitIInv, NextIInv, PTL DEF Spec

(* Every call, the cache and the settings hold values of their types, and  *)
(* no call is sent without a token (mtn_momo.py, _call).                   *)
THEOREM TypeCorrect == Spec => []TypeOK
<1>1. IInv => TypeOK
  BY DEF IInv
<1> QED
  BY <1>1, Inductive, PTL

(* Whatever the tokens and the credentials do meanwhile, an attempt set to *)
(* Error has no request at MTN that a payer could still approve            *)
(* (request_to_pay, INITIATION_STATUSES).                                  *)
THEOREM ErrorIsFinal == Spec => []ErrorMeansNothingCreated
<1>1. IInv => ErrorMeansNothingCreated
  <2> SUFFICES ASSUME IInv, NEW w \in Workers, At(w, "done"), Initiates(w)
               PROVE  /\ InitiationStatus(client[w].outcome) = "Error"
                            => request[w] = "absent"
                      /\ client[w].outcome \in TakenIn => request[w] # "absent"
    BY DEF ErrorMeansNothingCreated
  <2>1. OutcomeSound(w, client[w], request[w]) /\ client[w].pc = "done" /\ client[w].about = w
    BY CallHolds DEF At, Initiates
  <2>2. client[w].outcome \in InitiationOutcomes
    BY <2>1 DEF OutcomeSound
  <2>3. InitiationStatus(client[w].outcome) = "Error" => client[w].outcome \in RefusedOutcomes
    BY <2>2 DEF InitiationStatus, InitiationOutcomes, RefusedOutcomes
  <2> QED
    BY <2>1, <2>3 DEF OutcomeSound
<1> QED
  BY <1>1, Inductive, PTL

(* The log a manager reads to settle a dispute never contradicts MTN,      *)
(* however the call went (initiate, log_exchanges, _report).               *)
THEOREM LogIsTrue == Spec => []LogAgrees
<1>1. IInv => LogAgrees
  <2> SUFFICES ASSUME IInv, NEW w \in Workers, At(w, "done"), Initiates(w)
               PROVE  CASE IntegrationRequest(w) = "None"      -> request[w] = "absent"
                        [] IntegrationRequest(w) = "Completed" -> request[w] # "absent"
                        [] IntegrationRequest(w) = "Failed"    ->
                              request[w] # "absent" => client[w].outcome = "unknown"
    BY DEF LogAgrees
  <2>1. OutcomeSound(w, client[w], request[w]) /\ client[w].pc = "done" /\ client[w].about = w
    BY CallHolds DEF At, Initiates
  <2>2. CASE client[w].sends = 0
    BY <2>1, <2>2 DEF OutcomeSound, IntegrationRequest
  <2>3. CASE client[w].sends # 0 /\ client[w].outcome \in TakenIn
    BY <2>1, <2>3 DEF OutcomeSound, IntegrationRequest
  <2>4. CASE client[w].sends # 0 /\ client[w].outcome \notin TakenIn
    <3>1. client[w].outcome \in RefusedOutcomes \/ client[w].outcome = "unknown"
      BY <2>1, <2>4 DEF OutcomeSound, InitiationOutcomes, TakenIn, RefusedOutcomes
    <3> QED
      BY <2>1, <2>4, <3>1 DEF OutcomeSound, IntegrationRequest
  <2> QED
    BY <2>2, <2>3, <2>4
<1> QED
  BY <1>1, Inductive, PTL

(* What a query concludes is what MTN holds, through any renewal of tokens *)
(* and whatever MTN decides meanwhile (check_status).                      *)
THEOREM VerdictIsTrue == Spec => []VerdictIsMtns
<1>1. IInv => VerdictIsMtns
  BY CallHolds DEF VerdictIsMtns, VerdictSound
<1> QED
  BY <1>1, Inductive, PTL

(* No process is still initiating after INITIATION_WINDOW, whatever the    *)
(* others do to the shared token (_call, DEFAULT_TIMEOUT).                 *)
THEOREM CallIsShort == Spec => []CallFitsWindow
<1>1. IInv => CallFitsWindow
  <2> SUFFICES ASSUME IInv, NEW w \in Workers
               PROVE  (client[w].fetches + client[w].sends) * CALL_TIMEOUT < INITIATION_WINDOW
    BY DEF CallFitsWindow
  <2>1. client[w].fetches \in 0 .. 2 /\ client[w].sends \in 0 .. 2
    BY CallHolds DEF ClientType
  <2> QED
    BY <2>1 DEF CALL_TIMEOUT, INITIATION_WINDOW
<1> QED
  BY <1>1, Inductive, PTL

(* A dead token in the shared cache never costs an attempt (_token).       *)
THEOREM DeadTokenIsHarmless == Spec => []RefusedOnFreshToken
<1>1. IInv => RefusedOnFreshToken
  BY DEF IInv, TokenInv, TokenSound, RefusedOnFreshToken
<1> QED
  BY <1>1, Inductive, PTL

(* No number the page took is refused once its attempt is recorded, if no  *)
(* country code begins with a 0 (payer_msisdn, validate_msisdn).           *)
THEOREM NumbersPass == CountryCodes => (Spec => []NumberIsNeverRefused)
<1> SUFFICES ASSUME CountryCodes PROVE Spec => []NumberIsNeverRefused
  OBVIOUS
<1>1. Init => NumberIsNeverRefused
  BY DEF Init, NumberIsNeverRefused
<1>2. NumberIsNeverRefused /\ IInv /\ [Next]_vars => NumberIsNeverRefused'
  <2> SUFFICES ASSUME NumberIsNeverRefused, IInv, [Next]_vars, NEW v \in Workers
               PROVE  client'[v].outcome # "bad_number"
    BY DEF NumberIsNeverRefused
  <2>1. ValidNumbers = PayerNumbers
    BY ReadTwiceTheSame
  <2>2. client[v].outcome # "bad_number" /\ client \in [Workers -> ClientType]
    BY DEF NumberIsNeverRefused, IInv, TypeOK
  <2>3. ASSUME NEW w \in Workers, CallStep(w) PROVE client'[v].outcome # "bad_number"
    <3>1. CASE RefuseLocally(w)
      BY <2>1, <2>2, <3>1 DEF RefuseLocally, End, ClientType
    <3>2. CASE Begin(w) \/ \E u \in Workers : BeginQuery(w, u)
      <4>1. CASE Begin(w)
        BY <2>2, <4>1 DEF Begin, ClientType
      <4>2. ASSUME NEW u \in Workers, BeginQuery(w, u)
            PROVE  client'[v].outcome # "bad_number"
        BY <2>2, <4>2 DEF BeginQuery, ClientType
      <4> QED
        BY <3>2, <4>1, <4>2
    <3>3. CASE ReadCache(w) \/ DropCached(w)
      BY <2>2, <3>3 DEF ReadCache, DropCached, ClientType
    <3>4. CASE Fetch(w) \/ Store(w)
      BY <2>2, <3>4 DEF Fetch, Store, Go, ClientType
    <3>5. CASE FetchFails(w)
      BY <2>2, <3>5 DEF FetchFails, ClientType
    <3>6. CASE Send(w)
      BY <2>2, <3>6 DEF Send, Sent, OutcomeOf, ClientType
    <3>7. CASE Ask(w)
      BY <2>2, <3>7 DEF Ask, Sent, StatusOf, ClientType
    <3>8. CASE Refused(w)
      BY <2>2, <3>8 DEF Refused, Sent, ClientType
    <3> QED
      BY <2>3, <3>1, <3>2, <3>3, <3>4, <3>5, <3>6, <3>7, <3>8 DEF CallStep
  <2>4. CASE client' = client
    BY <2>2, <2>4
  <2> QED
    BY <2>3, <2>4 DEF Next, ArriveLate, Decide, Expire, LeaveCache, SaveSettings,
                      CommitSettings, vars
<1> QED
  BY <1>1, <1>2, Inductive, PTL DEF Spec

-----------------------------------------------------------------------------
(* The refinement: a call that has not ended has said nothing.             *)

LEMMA Unsaid ==
  ASSUME NEW w \in Workers, client[w].pc # "done", client'[w].pc # "done",
         \A v \in Workers : v # w => client'[v] = client[v],
         request' = request
  PROVE  UNCHANGED Contract!vars
<1>1. \A v \in Workers : Said(v, client'[v]) = Said(v, client[v])
  BY DEF Said
<1> QED
  BY <1>1 DEF Contract!vars

LEMMA Says ==
  ASSUME NEW w \in Workers, client[w].pc # "done", client'[w].pc = "done",
         \A v \in Workers : v # w => client'[v] = client[v],
         NEW what, Told(w, client'[w]) = what
  PROVE  Contract!Say(w, what, client'[w].about)
<1>1. \A v \in Workers : v # w => Said(v, client'[v]) = Said(v, client[v])
  OBVIOUS
<1>2. /\ Said(w, client[w]) = Contract!Nothing(w)
      /\ Said(w, client'[w]) = Contract!Returned(what, client'[w].about)
  BY DEF Said, Contract!Nothing, Contract!Returned
<1> QED
  BY <1>1, <1>2 DEF Contract!Say

(* What a step of one call is to the others.                               *)
LEMMA OneCallMoves ==
  ASSUME IInv, NEW w \in Workers, CallStep(w)
  PROVE  \A v \in Workers : v # w => client'[v] = client[v]
  BY DEF CallStep, Begin, RefuseLocally, BeginQuery, ReadCache, DropCached, Fetch, FetchFails,
     Store, Send, Ask, Refused, Go, End, Sent, IInv, TypeOK

(* A call that goes on.                                                    *)
LEMMA GoesOnUnsaid ==
  ASSUME IInv, NEW w \in Workers,
         \/ Begin(w) \/ (\E v \in Workers : BeginQuery(w, v)) \/ ReadCache(w)
         \/ DropCached(w) \/ Fetch(w) \/ Store(w)
         \/ Refused(w) /\ client[w].pass # 2
  PROVE  UNCHANGED Contract!vars
<1>1. client[w].pc # "done" /\ request' = request /\ client[w] \in ClientType
  BY CallHolds DEF Begin, BeginQuery, ReadCache, DropCached, Fetch, Store, Refused, At
<1>2. client'[w].pc # "done"
  <2>1. CASE Begin(w)
    BY <1>1, <2>1 DEF Begin, ClientType, IInv, TypeOK
  <2>0. ASSUME NEW v \in Workers, BeginQuery(w, v)
        PROVE  client'[w].pc # "done"
    BY <1>1, <2>0 DEF BeginQuery, ClientType, IInv, TypeOK
  <2>2. CASE ReadCache(w) \/ DropCached(w) \/ Fetch(w) \/ Store(w)
    BY <1>1, <2>2 DEF ReadCache, DropCached, Fetch, Store, Go, ClientType, IInv, TypeOK
  <2>3. CASE Refused(w) /\ client[w].pass # 2
    BY <1>1, <2>3 DEF Refused, ClientType, IInv, TypeOK
  <2> QED
    BY <2>0, <2>1, <2>2, <2>3
<1>3. \A v \in Workers : v # w => client'[v] = client[v]
  BY OneCallMoves DEF CallStep
<1> QED
  BY <1>1, <1>2, <1>3, Unsaid

(* A call that ends with an outcome, and what it tells then.               *)
LEMMA Ending ==
  ASSUME IInv, NEW w \in Workers, CallStep(w), client'[w].pc = "done",
         client[w].pc # "done", NEW x, client'[w].outcome = x,
         client'[w].about = client[w].about
  PROVE  /\ client[w].about = w =>
               Contract!Say(w, IF x \in TakenIn THEN "taken in"
                               ELSE IF InitiationStatus(x) = "Error" THEN "refused"
                               ELSE "unknown", w)
         /\ client[w].about # w =>
               Contract!Say(w, IF x \in {"Pending", "Succeeded", "Failed"} THEN x
                               ELSE "no answer", client[w].about)
<1>1. \A v \in Workers : v # w => client'[v] = client[v]
  BY OneCallMoves
<1>2. client[w].about = w =>
        Told(w, client'[w]) = IF x \in TakenIn THEN "taken in"
                              ELSE IF InitiationStatus(x) = "Error" THEN "refused"
                              ELSE "unknown"
  BY DEF Told
<1>3. client[w].about # w =>
        Told(w, client'[w]) = IF x \in {"Pending", "Succeeded", "Failed"} THEN x
                              ELSE "no answer"
  BY DEF Told
<1> QED
  BY <1>1, <1>2, <1>3, Says

(* A call that ends before MTN has answered it.                            *)
LEMMA EndsUnanswered ==
  ASSUME IInv, NEW w \in Workers,
         RefuseLocally(w) \/ FetchFails(w) \/ (Refused(w) /\ client[w].pass = 2)
  PROVE  Contract!Refuse(w) \/ \E v \in Workers : Contract!Answer(w, v)
<1>1. /\ client[w].pc # "done" /\ client[w] \in ClientType /\ request' = request
      /\ OutcomeSound(w, client[w], request[w]) /\ CallStep(w)
  BY CallHolds DEF RefuseLocally, FetchFails, Refused, At, CallStep
<1>2. /\ client'[w].pc = "done" /\ client'[w].about = client[w].about
      /\ client[w].about = w =>
            client'[w].outcome \in {"bad_amount", "bad_number", "not_sent", "unauthorized"}
      /\ client[w].about # w => client'[w].outcome \in {"no_answer", "unauthorized"}
  <2>1. CASE RefuseLocally(w)
    BY <1>1, <2>1 DEF RefuseLocally, End, At, OutcomeSound, ClientType, IInv, TypeOK
  <2>2. CASE FetchFails(w)
    BY <1>1, <2>2 DEF FetchFails, Initiates, ClientType, IInv, TypeOK
  <2>3. CASE Refused(w) /\ client[w].pass = 2
    BY <1>1, <2>3 DEF Refused, Sent, ClientType, IInv, TypeOK
  <2> QED
    BY <2>1, <2>2, <2>3
<1>3. CASE client[w].about = w
  <2>1. /\ client'[w].outcome \notin TakenIn
        /\ InitiationStatus(client'[w].outcome) = "Error"
    BY <1>2, <1>3 DEF TakenIn, InitiationStatus
  <2>2. Contract!Say(w, "refused", w)
    BY <1>1, <1>2, <1>3, <2>1, Ending
  <2>3. request[w] = "absent"
    BY <1>1 DEF OutcomeSound
  <2> QED
    BY <1>1, <2>2, <2>3 DEF Contract!Refuse
<1>4. CASE client[w].about # w
  <2>1. Contract!Say(w, "no answer", client[w].about)
    BY <1>1, <1>2, <1>4, Ending
  <2>2. client[w].about \in Workers
    BY <1>1 DEF ClientType
  <2> QED
    BY <1>1, <1>4, <2>1, <2>2 DEF Contract!Answer
<1> QED
  BY <1>3, <1>4

LEMMA SendTells ==
  ASSUME IInv, NEW w \in Workers, Send(w)
  PROVE  Contract!TakeIn(w) \/ Contract!Refuse(w) \/ Contract!LoseTrack(w)
<1>1. /\ client[w].pc # "done" /\ client[w] \in ClientType /\ client[w].about = w
      /\ request[w] = "absent" /\ CallStep(w)
  BY CallHolds DEF Send, At, Initiates, OutcomeSound, CallStep
<1>2. PICK answer \in {"202", "409", "4xx", "unknown"} :
         Answers(w, answer) /\ Sent(w, OutcomeOf(answer))
  BY DEF Send
<1> DEFINE x == OutcomeOf(answer)
<1>3. client'[w].pc = "done" /\ client'[w].outcome = x /\ client'[w].about = w
  BY <1>1, <1>2 DEF Sent, ClientType, IInv, TypeOK
<1>4. Contract!Say(w, IF x \in TakenIn THEN "taken in"
                      ELSE IF InitiationStatus(x) = "Error" THEN "refused"
                      ELSE "unknown", w)
  BY <1>1, <1>3, Ending
<1>5. CASE answer \in {"202", "409"}
  <2>1. x \in TakenIn
    BY <1>5 DEF OutcomeOf, TakenIn
  <2>2. request' = [request EXCEPT ![w] = "pending"]
    BY <1>2, <1>5 DEF Answers
  <2> QED
    BY <1>1, <1>4, <2>1, <2>2 DEF Contract!TakeIn, Contract!Arrives
<1>6. CASE answer = "4xx"
  <2>1. x \notin TakenIn /\ InitiationStatus(x) = "Error"
    BY <1>6 DEF OutcomeOf, TakenIn, InitiationStatus
  <2>2. request' = request
    BY <1>2, <1>6 DEF Answers
  <2> QED
    BY <1>1, <1>4, <2>1, <2>2 DEF Contract!Refuse
<1>7. CASE answer = "unknown"
  <2>1. x \notin TakenIn /\ InitiationStatus(x) # "Error"
    BY <1>7 DEF OutcomeOf, TakenIn, InitiationStatus
  <2>2. request' = request \/ request' = [request EXCEPT ![w] = "pending"]
    BY <1>2 DEF Answers
  <2> QED
    BY <1>1, <1>4, <2>1, <2>2 DEF Contract!LoseTrack, Contract!Arrives
<1> QED
  BY <1>5, <1>6, <1>7

LEMMA AskTells ==
  ASSUME IInv, NEW w \in Workers, Ask(w)
  PROVE  \E v \in Workers : Contract!Answer(w, v)
<1> DEFINE v == client[w].about
<1>1. /\ client[w].pc # "done" /\ client[w] \in ClientType /\ v # w /\ v \in Workers
      /\ request' = request /\ CallStep(w) /\ request[v] \in Requests
  BY CallHolds DEF Ask, At, Initiates, CallStep, ClientType
<1>2. PICK answer \in {request[v], "unreadable"} : Sent(w, StatusOf(answer))
  BY DEF Ask
<1> DEFINE x == StatusOf(answer)
<1>3. client'[w].pc = "done" /\ client'[w].outcome = x /\ client'[w].about = v
  BY <1>1, <1>2 DEF Sent, ClientType, IInv, TypeOK
<1>4. Contract!Say(w, IF x \in {"Pending", "Succeeded", "Failed"} THEN x ELSE "no answer", v)
  BY <1>1, <1>3, Ending
<1>5. CASE answer = request[v]
  <2>1. x \in {"Pending", "Succeeded", "Failed"} /\ x = Contract!AnswerFor(request[v])
    BY <1>1, <1>5 DEF StatusOf, Contract!AnswerFor, Requests
  <2> QED
    BY <1>1, <1>4, <2>1 DEF Contract!Answer
<1>6. CASE answer = "unreadable"
  <2>1. x \notin {"Pending", "Succeeded", "Failed"}
    BY <1>6 DEF StatusOf
  <2> QED
    BY <1>1, <1>4, <2>1 DEF Contract!Answer
<1> QED
  BY <1>5, <1>6

(* The steps of MTN itself, and those that reach no request.               *)
LEMMA OtherTells ==
  ASSUME IInv,
         \/ \E w \in Workers : ArriveLate(w)
         \/ \E w \in Workers, verdict \in {"successful", "failed"} : Decide(w, verdict)
         \/ \E t \in 1 .. MaxTokens : Expire(t)
         \/ LeaveCache \/ SaveSettings \/ CommitSettings \/ UNCHANGED vars
  PROVE  [Contract!Next]_(Contract!vars)
<1>1. client' = client
  BY DEF ArriveLate, Decide, Expire, LeaveCache, SaveSettings, CommitSettings, vars
<1>2. [v \in Workers |-> Said(v, client'[v])] = [v \in Workers |-> Said(v, client[v])]
  BY <1>1
<1>3. ASSUME NEW w \in Workers, ArriveLate(w) PROVE Contract!ArriveLate(w)
  <2>1. client[w].outcome = "unknown" /\ client[w].pc = "done" /\ client[w].about = w
    BY <1>3, CallHolds DEF ArriveLate, At, OutcomeSound
  <2>2. Said(w, client[w]) = Contract!Returned("unknown", w)
    BY <2>1 DEF Said, Told, TakenIn, InitiationStatus, Contract!Returned
  <2> QED
    BY <1>2, <1>3, <2>2 DEF ArriveLate, Contract!ArriveLate, Contract!Arrives
<1>4. ASSUME NEW w \in Workers, NEW verdict \in {"successful", "failed"}, Decide(w, verdict)
      PROVE  Contract!Decide(w, verdict)
  BY <1>2, <1>4 DEF Decide, Contract!Decide
<1>5. CASE (\E t \in 1 .. MaxTokens : Expire(t)) \/ LeaveCache \/ SaveSettings
             \/ CommitSettings \/ UNCHANGED vars
  BY <1>2, <1>5 DEF Expire, LeaveCache, SaveSettings, CommitSettings, vars, Contract!vars
<1> QED
  BY <1>3, <1>4, <1>5 DEF Contract!Next

(* Each step of the client is one of the contract's, or changes nothing it *)
(* sees.                                                                   *)
LEMMA StepKeepsContract == IInv /\ [Next]_vars => [Contract!Next]_(Contract!vars)
<1> SUFFICES ASSUME IInv, [Next]_vars PROVE [Contract!Next]_(Contract!vars)
  OBVIOUS
<1>1. ASSUME NEW w \in Workers, CallStep(w) PROVE [Contract!Next]_(Contract!vars)
  <2>1. CASE \/ Begin(w) \/ (\E v \in Workers : BeginQuery(w, v)) \/ ReadCache(w)
             \/ DropCached(w) \/ Fetch(w) \/ Store(w)
             \/ Refused(w) /\ client[w].pass # 2
    BY <2>1, GoesOnUnsaid
  <2>2. CASE RefuseLocally(w) \/ FetchFails(w) \/ (Refused(w) /\ client[w].pass = 2)
    BY <2>2, EndsUnanswered DEF Contract!Next
  <2>3. CASE Send(w)
    BY <2>3, SendTells DEF Contract!Next
  <2>4. CASE Ask(w)
    BY <2>4, AskTells DEF Contract!Next
  <2> QED
    BY <1>1, <2>1, <2>2, <2>3, <2>4 DEF CallStep
<1> QED
  BY <1>1, OtherTells DEF Next

(* Whatever becomes of tokens and credentials, an initiation and a query   *)
(* act as one step that is so when it is taken: what reconcile.py and      *)
(* api.py take them for (StatusProvider, initiate).                        *)
THEOREM ContractIsKept == Spec => KeepsContract
<1>1. Init => Contract!Init
  BY DEF Init, Contract!Init, Contract!Nothing, Contract!Returned, Said
<1> QED
  BY <1>1, StepKeepsContract, Inductive, PTL DEF Spec, KeepsContract, Contract!Spec
=============================================================================
