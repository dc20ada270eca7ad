---------------------------- MODULE DexProvider ----------------------------
(***************************************************************************)
(* DexProvider.get_pairs: concurrent callers resolve pair addresses to      *)
(* pairs through an LRU cache of AsyncValues.  Whoever misses an address    *)
(* puts an empty AsyncValue there and fetches the pair; whoever finds one   *)
(* that is empty waits on its broadcast channel, which has room for one     *)
(* value.  What an address resolves to, a pair or nothing, never changes.   *)
(***************************************************************************)
EXTENDS Naturals, Sequences, FiniteSets, SequencesExt

CONSTANTS
  Callers,    \* get_pairs calls, by the tasks that make them
  Addrs,      \* pair addresses
  Valid,      \* those whose calls decode to a pair with WETH
  Capacity,   \* of the LruCache, 2500 in the program
  MayFail     \* whether a multicall may fail, or a caller be aborted

ASSUME AddrsAssumption    == IsFiniteSet(Addrs) /\ Valid \subseteq Addrs
ASSUME CapacityAssumption == Capacity \in Nat \ {0}
ASSUME FailureAssumption  == MayFail \in BOOLEAN

VARIABLES
  cache,   \* pair_cache: <<address, AsyncValue>>, the most recently used last
  sent,    \* sent[v]: how often AsyncValue v was set
  owner,   \* owner[v]: the caller that put AsyncValue v
  pc,      \* pc[c]: "start", "join" (the try_join), "ok", "err"
  wants,   \* the addresses of the call
  own,     \* pair_results: the addresses the caller fetches
  calls,   \* whether its multicall is still out
  waits,   \* async_values: the <<address, AsyncValue>> it awaits
  got      \* the addresses it has a pair for

callVars == <<pc, wants, own, calls, waits, got>>
vars == <<cache, sent, owner, callVars>>

Values == DOMAIN sent

TypeOK ==
  /\ cache \in Seq(Addrs \X Values) /\ Len(cache) <= Capacity
  /\ \A i, j \in DOMAIN cache : cache[i][1] = cache[j][1] => i = j
  /\ sent \in Seq(Nat)
  /\ owner \in [Values -> Callers]
  /\ pc \in [Callers -> {"start", "join", "ok", "err"}]
  /\ wants \in [Callers -> SUBSET Addrs]
  /\ own \in [Callers -> SUBSET Addrs]
  /\ calls \in [Callers -> BOOLEAN]
  /\ waits \in [Callers -> SUBSET (Addrs \X Values)]
  /\ got \in [Callers -> SUBSET Addrs]

Init == /\ cache = <<>> /\ sent = <<>> /\ owner = <<>>
        /\ pc = [c \in Callers |-> "start"]
        /\ wants = [c \in Callers |-> {}]
        /\ own = [c \in Callers |-> {}]
        /\ calls = [c \in Callers |-> FALSE]
        /\ waits = [c \in Callers |-> {}]
        /\ got = [c \in Callers |-> {}]
-----------------------------------------------------------------------------
(* Definitions named X_Something, here and below, are plausible bugs in the *)
(* definition X that follows them; the project's mutation runs put one in   *)
(* the place of X to show that a property notices.  No action uses them.    *)

Cached(ch, a)  == \E i \in DOMAIN ch : ch[i][1] = a
IndexOf(ch, a) == CHOOSE i \in DOMAIN ch : ch[i][1] = a
EntryOf(ch, a) == ch[IndexOf(ch, a)]

(* LruCache::get and get_mut make the entry the most recently used. *)
Touch(ch, a) == Append(RemoveAt(ch, IndexOf(ch, a)), EntryOf(ch, a))

(* The cache grows past its capacity. *)
Put_NoEviction(ch, a, v) == Append(ch, <<a, v>>)

(* LruCache::put of a new key: the least recently used entry makes room. *)
Put(ch, a, v) == Append(IF Len(ch) = Capacity THEN Tail(ch) ELSE ch, <<a, v>>)

(* The placeholder is not put before the pair is there. *)
Miss_NoPlaceholder(s, a) == [s EXCEPT !.sent = Append(@, 0), !.own = @ \cup {a}]

(* An address that is not in the cache: this caller fetches it. *)
Miss(s, a) == [s EXCEPT !.cache = Put(@, a, Len(s.sent) + 1),
                        !.sent = Append(@, 0),
                        !.own = @ \cup {a}]

(* One that is: its value, if it is set, or its receiver. *)
Hit(s, a) ==
  LET v == EntryOf(s.cache, a)[2] IN
  [s EXCEPT !.cache = Touch(@, a),
            !.waits = IF s.sent[v] = 0 THEN @ \cup {<<a, v>>} ELSE @,
            !.got = IF s.sent[v] > 0 /\ a \in Valid THEN @ \cup {a} ELSE @]

Lookup(s, a) == IF Cached(s.cache, a) THEN Hit(s, a) ELSE Miss(s, a)

(* The loop over the inputs: what it has found after the last of them. *)
Found(inputs) ==
  LET found[i \in 0..Len(inputs)] ==
        IF i = 0 THEN [cache |-> cache, sent |-> sent, own |-> {}, waits |-> {}, got |-> {}]
                 ELSE Lookup(found[i - 1], inputs[i])
  IN  found[Len(inputs)]

(* The loop runs under the lock of the cache. *)
Begin(c, inputs) ==
  LET found == Found(inputs) IN
  /\ pc[c] = "start"
  /\ pc' = [pc EXCEPT ![c] = "join"]
  /\ wants' = [wants EXCEPT ![c] = ToSet(inputs)]
  /\ cache' = found.cache
  /\ sent' = found.sent
  /\ owner' = owner \o [v \in 1..Len(found.sent) - Len(sent) |-> c]
  /\ own' = [own EXCEPT ![c] = found.own]
  /\ calls' = [calls EXCEPT ![c] = TRUE]
  /\ waits' = [waits EXCEPT ![c] = found.waits]
  /\ got' = [got EXCEPT ![c] = found.got]

(* The multicall returns, *)
MulticallOk(c) ==
  /\ pc[c] = "join" /\ calls[c]
  /\ calls' = [calls EXCEPT ![c] = FALSE]
  /\ UNCHANGED <<cache, sent, owner, pc, wants, own, waits, got>>

(* try_join gives up: what the caller put in the cache stays there, unset. *)
GiveUp(c) ==
  /\ pc' = [pc EXCEPT ![c] = "err"]
  /\ UNCHANGED <<cache, sent, owner, wants, own, calls, waits, got>>

(* or it fails, or the caller is aborted. *)
Fails(c) == MayFail /\ pc[c] = "join" /\ GiveUp(c)

Alive(w) == \E i \in DOMAIN cache : cache[i] = w

(* Receiver::recv: the value, if it is the only one sent. *)
Recv(c, w) ==
  /\ pc[c] = "join" /\ w \in waits[c] /\ sent[w[2]] = 1
  /\ waits' = [waits EXCEPT ![c] = @ \ {w}]
  /\ got' = [got EXCEPT ![c] = IF w[1] \in Valid THEN @ \cup {w[1]} ELSE @]
  /\ UNCHANGED <<cache, sent, owner, pc, wants, own, calls>>

(* A receiver that cannot resolve its address yields nothing. *)
Unresolved_Ignored(c, w) ==
  /\ waits' = [waits EXCEPT ![c] = @ \ {w}]
  /\ UNCHANGED <<cache, sent, owner, pc, wants, own, calls, got>>

(* resolve_map fails with its first failing receiver. *)
Unresolved(c, w) == GiveUp(c)

(* Lagged, when two values were sent; Closed, when the cache dropped the    *)
(* AsyncValue before one was.                                               *)
RecvErr(c, w) ==
  /\ pc[c] = "join" /\ w \in waits[c]
  /\ sent[w[2]] > 1 \/ (sent[w[2]] = 0 /\ ~ Alive(w))
  /\ Unresolved(c, w)

(* Only pairs are published. *)
Published_PairsOnly(c) == own[c] \cap Valid

Published(c) == own[c]

(* The addresses whose pairs are published: those that still have an entry. *)
Present(c) == {a \in Published(c) : Cached(cache, a)}

Touched(order) ==
  LET touched[i \in 0..Len(order)] == IF i = 0 THEN cache ELSE Touch(touched[i - 1], order[i])
  IN  touched[Len(order)]

(* Both are done: under the lock every address fetched is set in the cache, *)
(* if it has an entry, whoever put it there.                                *)
Return(c, order) ==
  /\ pc[c] = "join" /\ ~ calls[c] /\ waits[c] = {}
  /\ cache' = Touched(order)
  /\ sent' = [v \in Values |-> IF \E a \in Present(c) : EntryOf(cache, a)[2] = v
                               THEN sent[v] + 1 ELSE sent[v]]
  /\ got' = [got EXCEPT ![c] = @ \cup (own[c] \cap Valid)]
  /\ pc' = [pc EXCEPT ![c] = "ok"]
  /\ UNCHANGED <<owner, wants, own, calls, waits>>

Done == (\A c \in Callers : pc[c] \in {"ok", "err"}) /\ UNCHANGED vars

CallStep(c) ==
  \/ MulticallOk(c) \/ Fails(c)
  \/ \E w \in waits[c] : Recv(c, w) \/ RecvErr(c, w)
  \/ \E order \in SetToSeqs(Present(c)) : Return(c, order)

Start == \E c \in Callers, S \in (SUBSET Addrs) \ {{}} :
           \E inputs \in SetToSeqs(S) : Begin(c, inputs)

(* A call that waits for others.  One that failed has left placeholders     *)
(* nobody will set, and those who wait for them wait for ever.              *)
Parked == (\E c \in Callers : pc[c] = "join" /\ waits[c] # {}) /\ UNCHANGED vars

Next == Start \/ (\E c \in Callers : CallStep(c)) \/ Parked \/ Done

(* Calls return, and tasks that can run are run. *)
Fairness == \A c \in Callers : WF_vars(CallStep(c))

Spec == Init /\ [][Next]_vars /\ Fairness
-----------------------------------------------------------------------------
(* Properties *)

(* A call that succeeds has a pair for exactly those of its addresses that  *)
(* are pairs: however its work was shared with other calls, evicted or      *)
(* failed halfway, no trade is dropped as one of an invalid pair.           *)
ResultComplete == \A c \in Callers : pc[c] = "ok" => got[c] = wants[c] \cap Valid

(* Nobody waits for a value that nobody is going to send, unless the call   *)
(* that was to send it failed.                                              *)
WaitsServed ==
  \A c \in Callers : pc[c] = "join" => \A w \in waits[c] :
    \/ sent[w[2]] > 0 \/ ~ Alive(w)
    \/ pc[owner[w[2]]] \in {"join", "err"} /\ w[1] \in own[owner[w[2]]]

(* As long as nothing is evicted a pair is fetched by one call at a time.   *)
SingleFlight ==
  \A c, d \in Callers : c # d => own[c] \cap own[d] = {}

(* Calls do not wait for each other in a circle: without failures and       *)
(* evictions every call succeeds.                                           *)
AllReturn == \A c \in Callers : pc[c] = "join" ~> pc[c] = "ok"
-----------------------------------------------------------------------------
(* The inductive invariant behind the safety properties *)

EntriesOf(ch) == {ch[i] : i \in DOMAIN ch}

OneEntryEach(ch) == \A i, j \in DOMAIN ch : ch[i][1] = ch[j][1] => i = j

(* An AsyncValue in the cache that is not set is one whose caller fetches   *)
(* its pair, or failed while it did.                                        *)
PlaceholdersOwned ==
  \A e \in EntriesOf(cache) : sent[e[2]] = 0 =>
    pc[owner[e[2]]] \in {"join", "err"} /\ e[1] \in own[owner[e[2]]]

(* A call still knows of each of its pairs: it has it, fetches it, or waits *)
(* for it.                                                                  *)
Accounted ==
  \A c \in Callers :
    /\ own[c] \subseteq wants[c] /\ got[c] \subseteq wants[c] \cap Valid
    /\ \A w \in waits[c] : w[1] \in wants[c]
    /\ pc[c] = "join" =>
         \A a \in wants[c] \cap Valid : a \in own[c] \cup got[c] \/ \E w \in waits[c] : w[1] = a
    /\ pc[c] = "ok" => got[c] = wants[c] \cap Valid

DexInv == TypeOK /\ PlaceholdersOwned /\ Accounted

(* Without evictions an address that a call fetches stays in the cache.     *)
FetchedStay == \A c \in Callers : \A a \in own[c] : Cached(cache, a)
=============================================================================
