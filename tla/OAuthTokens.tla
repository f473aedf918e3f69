----------------------------- MODULE OAuthTokens -----------------------------
(***************************************************************************)
(* OAuth variables at run time (pawrly-secrets/variables): the engine's    *)
(* RuntimeVariableStore mints access tokens from persisted refresh tokens, *)
(* `source connect` obtains them in another process, and both keep them in *)
(* the keyring or in one encrypted file.  The provider may rotate a        *)
(* refresh token whenever it is used: the old one is then void.            *)
(*                                                                         *)
(* A refresh token is <<grant, rotation>>.  Time passes only while someone *)
(* waits for the network or sleeps; its unit is the skew of 30 seconds.    *)
(*                                                                         *)
(* now       the clock                                                     *)
(* gen       how many stores the engine has built: reload_config adds one, *)
(*           and the sources it leaves alone keep the first                *)
(* cells     <<store, id>> -> the cached token and who holds the lock      *)
(* act       what each resolving task, and the command line, is doing      *)
(* idp       the provider: the grants of each id and the tokens it accepts *)
(* disk      the key file and the encrypted blob; ring, the keyring        *)
(* setup     what never changes: who resolves and connects which variables *)
(*           (load), PAWRLY_TOKEN_KEY in each process (env), whether there   *)
(*           is a keyring, how long the clock runs (horizon) and how often  *)
(*           a provider grants (grants)                                    *)
(* doc       when the discovery document was cached                        *)
(* contended the ids whose token a race, a crash or a lost answer may have *)
(*           cost: a history variable                                      *)
(***************************************************************************)
EXTENDS Naturals, Sequences, FiniteSets

CONSTANTS Ids, Grant,   \* the variables and the grant of each
          Discovered,   \* those whose endpoints come from a discovery document
          Tasks, Cli,   \* resolving tasks of the engine, the connecting process
          Setups,       \* the environments: see setup
          Skew, Timeout, Ttl, Lifetimes, Interval, CodeLife,
          MaxRotations

ASSUME TimeAssumption == Timeout <= Skew /\ Skew \in Nat /\ Timeout \in Nat

\* expires_in is a u64.
ASSUME LifetimeAssumption == Lifetimes \subseteq Nat

\* The command line is a process of its own, not one of the engine's tasks.
ASSUME CliAssumption == Cli \notin Tasks

VARIABLES now, gen, cells, act, idp, disk, ring, doc, setup, contended
vars == <<now, gen, cells, act, idp, disk, ring, doc, setup, contended>>

Actors == Tasks \cup {Cli}
Slots == (1..2) \X Ids

ASSUME LoadAssumption == \A s \in Setups : \A a \in Actors : s.load[a] \subseteq Ids

None == <<>>
NoToken == [exp |-> 0, real |-> 0]
Idle == [pc |-> "idle", id |-> "none", store |-> 0, use |-> None, got |-> None, at |-> 0,
         deadline |-> 0, interval |-> 0, snap |-> None]
Interactive(id) == Grant[id] \in {"device_code", "authorization_code"}

\* The horizon stands for every later time.
Reached(time) == now >= time \/ now = setup.horizon

-----------------------------------------------------------------------------
(* The value store: the keyring, and only when it fails the file. *)

Process(a) == IF a = Cli THEN "cli" ELSE "engine"

\* resolve_key: the process's environment, else the key on disk, else a new one;
\* whichever it is, it is the key on disk afterwards.
ResolveKey(p) == IF setup.env[p] # "none" THEN setup.env[p] ELSE IF disk.key # "none" THEN disk.key ELSE "random"
NoBlob == [key |-> "none", map |-> None]
ReadAll(p) == IF disk.blob = NoBlob THEN [ok |-> TRUE, map |-> None]
              ELSE [ok |-> disk.blob.key = ResolveKey(p), map |-> disk.blob.map]
AfterRead(p) == IF disk.blob = NoBlob THEN disk ELSE [disk EXCEPT !.key = ResolveKey(p)]
WriteAll(p, map) == [key |-> ResolveKey(p), blob |-> [key |-> ResolveKey(p), map |-> map]]
Put(m, k, x) == [i \in DOMAIN m \cup {k} |-> IF i = k THEN x ELSE m[i]]
Find(m, k) == IF k \in DOMAIN m THEN m[k] ELSE None

UsesKeyring == ring.on /\ ring.up
StoreGet(p, id) == IF UsesKeyring THEN [ok |-> TRUE, v |-> Find(ring.map, id)]
                   ELSE [ok |-> ReadAll(p).ok, v |-> Find(ReadAll(p).map, id)]

\* The file's lock belongs to the process.
FileFree(a) == \A b \in Actors : act[b].pc = "write" => Process(b) # Process(a)

-----------------------------------------------------------------------------
(* How a call goes on and how it ends. *)

Go(a, pc) == act' = [act EXCEPT ![a].pc = pc]
\* Mutant: a failed mint leaves its cell taken.
Unlock_Kept(a) == cells

Unlock(a) == IF a = Cli THEN cells ELSE [cells EXCEPT ![<<act[a].store, act[a].id>>].holder = Cli]
\* What is lost with a call that dies holding a new refresh token.
Cost(a) == IF act[a].got # None /\ act[a].got.new \notin {None, act[a].use} THEN {act[a].id} ELSE {}

\* An error: the lock is dropped, what the provider gave is forgotten.
Fail(a) ==
  /\ act' = [act EXCEPT ![a] = Idle]
  /\ cells' = Unlock(a)
  /\ contended' = contended \cup Cost(a)

\* into_cached, counted from the moment the answer is processed.
Cached(got) == [exp |-> now + got.life, real |-> got.issued + got.life]
Finish(a) ==
  /\ act' = [act EXCEPT ![a] = Idle]
  /\ cells' = IF a = Cli THEN cells
              ELSE [cells EXCEPT ![<<act[a].store, act[a].id>>] = [tok |-> Cached(act[a].got), holder |-> Cli]]

Posting(a, use) == [act[a] EXCEPT !.pc = "post", !.use = use, !.at = now]

-----------------------------------------------------------------------------
(* resolve and mint. *)

Resolve ==
  /\ \E t \in Tasks : \E s \in 1..gen, id \in setup.load[t] :
       /\ act[t].pc = "idle"
       /\ act' = [act EXCEPT ![t] = [Idle EXCEPT !.pc = "lock", !.id = id, !.store = s]]
  /\ UNCHANGED <<now, gen, cells, idp, disk, ring, doc, setup, contended>>

\* Mutant: a token is served until the very end of its life.
IsFresh_NoSkew(tok) == tok.exp > now

IsFresh(tok) == tok.exp > now + Skew

\* Where a mint starts: at the discovery document when none is cached.
DocFresh == doc # None /\ now - doc[1] <= Ttl
Entry(id) == IF id \in Discovered /\ ~DocFresh THEN "discover"
             ELSE IF Interactive(id) THEN "get" ELSE "send"

\* The cell's lock is taken; a fresh token is served from it.
Enter(t) ==
  /\ act[t].pc = "lock"
  /\ \E slot \in {<<act[t].store, act[t].id>>} :
       /\ cells[slot].holder = Cli
       /\ IF IsFresh(cells[slot].tok)
          THEN /\ act' = [act EXCEPT ![t] = Idle]
               /\ UNCHANGED cells
          ELSE /\ Go(t, Entry(act[t].id))
               /\ cells' = [cells EXCEPT ![slot].holder = t]
  /\ UNCHANGED <<now, gen, idp, disk, ring, doc, setup, contended>>

Discover(a) ==
  /\ act[a].pc = "discover"
  /\ \/ /\ Go(a, IF a = Cli THEN "ask" ELSE IF Interactive(act[a].id) THEN "get" ELSE "send")
        /\ doc' = <<now>>
        /\ UNCHANGED <<cells, contended>>
     \/ Fail(a) /\ UNCHANGED doc
  /\ UNCHANGED <<now, gen, idp, disk, ring, setup>>

\* Others that are between the refresh token and the value store for this id.
Busy(a, id) == \E b \in Actors \ {a} : act[b].id = id /\ act[b].pc \in {"post", "answered", "persist", "write"}

\* The refresh token is read, then sent.
GetRefresh(t) ==
  /\ act[t].pc = "get"
  /\ \E r \in {StoreGet("engine", act[t].id)} :
       IF ~r.ok \/ r.v = None THEN Fail(t)
       ELSE /\ act' = [act EXCEPT ![t] = Posting(t, r.v)]
            /\ contended' = IF Busy(t, act[t].id) THEN contended \cup {act[t].id} ELSE contended
            /\ UNCHANGED cells
  /\ disk' = IF UsesKeyring THEN disk ELSE AfterRead("engine")
  /\ UNCHANGED <<now, gen, idp, ring, doc, setup>>

\* client_credentials needs no stored token.
Send(t) ==
  /\ act[t].pc = "send"
  /\ act' = [act EXCEPT ![t] = Posting(t, None)]
  /\ UNCHANGED <<now, gen, cells, idp, disk, ring, doc, setup, contended>>

-----------------------------------------------------------------------------
(* The provider.  An answer is [err, life, issued, new]; new is the refresh *)
(* token it carries.                                                        *)

Answer(err, life, new) == [err |-> err, life |-> life, issued |-> now, new |-> new]
Rotated(r) == <<r[1], r[2] + 1>>
Answered(a, got) == act' = [act EXCEPT ![a].pc = "answered", ![a].got = got]

ProviderRefuses(a) ==
  /\ act[a].pc = "post"
  /\ Answered(a, Answer("oauth", 0, None))
  /\ UNCHANGED <<now, gen, cells, idp, disk, ring, doc, setup, contended>>

\* A refresh or a client_credentials exchange.
ProviderMints(t) ==
  /\ t \in Tasks /\ act[t].pc = "post"
  /\ \E id \in {act[t].id}, r \in {act[t].use}, life \in Lifetimes :
       \/ /\ r = None \/ r \in idp[id].valid
          /\ Answered(t, Answer("none", life, r))
          /\ UNCHANGED idp
       \/ /\ r # None /\ r \in idp[id].valid /\ r[2] < MaxRotations
          /\ Answered(t, Answer("none", life, Rotated(r)))
          /\ idp' = [idp EXCEPT ![id].valid = (@ \ {r}) \cup {Rotated(r)}]
  /\ UNCHANGED <<now, gen, cells, disk, ring, doc, setup, contended>>

\* The user approved: a new grant, perhaps without a refresh token.
ProviderGrants ==
  /\ act[Cli].pc = "post"
  /\ \E id \in {act[Cli].id} :
       \/ /\ Answered(Cli, Answer("none", 0, None))
          /\ UNCHANGED <<idp, contended>>
       \/ /\ idp[id].grants < setup.grants
          /\ \E r \in {<<idp[id].grants + 1, 0>>} :
               /\ Answered(Cli, Answer("none", 0, r))
               /\ idp' = [idp EXCEPT ![id] = [grants |-> @.grants + 1, valid |-> @.valid \cup {r}]]
          /\ contended' = IF Busy(Cli, id) THEN contended \cup {id} ELSE contended
  /\ UNCHANGED <<now, gen, cells, disk, ring, doc, setup>>

\* A device code that is not approved yet.
ProviderWaits ==
  /\ act[Cli].pc = "post" /\ Grant[act[Cli].id] = "device_code"
  /\ \E err \in {"authorization_pending", "slow_down"} : Answered(Cli, Answer(err, 0, None))
  /\ UNCHANGED <<now, gen, cells, idp, disk, ring, doc, setup, contended>>

-----------------------------------------------------------------------------
(* The answer is read. *)

\* Mutant: a rotated refresh token is used but not kept.
Keeps_First(a) == act[a].got.new # None /\ a = Cli

\* A refresh token is kept when it is not the one that was sent.
Keeps(a) == act[a].got.new # None /\ act[a].got.new # act[a].use

Receive(a) ==
  /\ act[a].pc = "answered"
  /\ \/ /\ act[a].got.err = "none" /\ Keeps(a)
        /\ Go(a, "persist")
        /\ UNCHANGED <<cells, contended>>
     \/ /\ act[a].got.err = "none" /\ ~Keeps(a) /\ a # Cli
        /\ Finish(a)
        /\ UNCHANGED contended
     \/ /\ act[a].got.err = "none" /\ ~Keeps(a) /\ a = Cli
        /\ Fail(a)
     \/ /\ act[a].got.err \in {"authorization_pending", "slow_down"}
        /\ \E wait \in {act[a].interval + (IF act[a].got.err = "slow_down" THEN 1 ELSE 0)} :
             act' = [act EXCEPT ![a] = [@ EXCEPT !.pc = "sleep", !.interval = wait, !.at = now + wait, !.got = None]]
        /\ UNCHANGED <<cells, contended>>
     \/ /\ act[a].got.err = "oauth"
        /\ Fail(a)
  /\ UNCHANGED <<now, gen, idp, disk, ring, doc, setup>>

\* The engine's client gives up; whatever the provider did is done.
RequestFails(t) ==
  /\ t \in Tasks /\ act[t].pc \in {"post", "answered"}
  /\ Fail(t)
  /\ UNCHANGED <<now, gen, idp, disk, ring, doc, setup>>

\* tokens.set: the keyring at once, the file by reading all and writing all.
Persist(a) ==
  /\ act[a].pc = "persist"
  /\ \/ /\ UsesKeyring
        /\ ring' = [ring EXCEPT !.map = Put(@, act[a].id, act[a].got.new)]
        /\ Finish(a)
        /\ contended' = IF a = Cli /\ ~Busy(a, act[a].id) /\ Find(disk.blob.map, act[a].id) = None
                        THEN contended \ {act[a].id} ELSE contended
        /\ UNCHANGED disk
     \/ /\ ~UsesKeyring /\ FileFree(a) /\ ReadAll(Process(a)).ok
        /\ act' = [act EXCEPT ![a] = [@ EXCEPT !.pc = "write", !.snap = disk.blob.map]]
        /\ disk' = AfterRead(Process(a))
        /\ UNCHANGED <<cells, contended, ring>>
     \/ /\ ~UsesKeyring /\ FileFree(a) /\ ~ReadAll(Process(a)).ok
        /\ disk' = AfterRead(Process(a))
        /\ Fail(a)
        /\ UNCHANGED ring
  /\ UNCHANGED <<now, gen, idp, doc, setup>>

\* Entries another process wrote since the file was read.
Overwritten(a) ==
  {i \in Ids \ {act[a].id} : Find(disk.blob.map, i) # Find(act[a].snap, i)}
WriteFile(a) ==
  /\ act[a].pc = "write"
  /\ disk' = WriteAll(Process(a), Put(act[a].snap, act[a].id, act[a].got.new))
  /\ Finish(a)
  /\ contended' = (IF a = Cli /\ ~ring.on /\ ~Busy(a, act[a].id) THEN contended \ {act[a].id} ELSE contended)
                    \cup Overwritten(a) \cup (IF ring.on THEN {act[a].id} ELSE {})
  /\ UNCHANGED <<now, gen, idp, ring, doc, setup>>

-----------------------------------------------------------------------------
(* source connect: device_code_connect and authorization_code_connect. *)

Connect ==
  /\ act[Cli].pc = "idle"
  /\ \E id \in {i \in setup.load[Cli] : Interactive(i)} :
       act' = [act EXCEPT ![Cli] = [Idle EXCEPT !.pc = IF id \in Discovered /\ ~DocFresh THEN "discover" ELSE "ask",
                                                !.id = id]]
  /\ UNCHANGED <<now, gen, cells, idp, disk, ring, doc, setup, contended>>

\* The device code is requested and its prompt shown.
AskDevice ==
  /\ act[Cli].pc = "ask" /\ Grant[act[Cli].id] = "device_code"
  /\ \/ /\ now + CodeLife <= setup.horizon
        /\ act' = [act EXCEPT ![Cli] = [@ EXCEPT !.pc = "sleep", !.interval = Interval, !.at = now + Interval,
                                                 !.deadline = now + CodeLife]]
        /\ UNCHANGED <<cells, contended>>
     \/ Fail(Cli)
  /\ UNCHANGED <<now, gen, idp, disk, ring, doc, setup>>

\* The loopback listener is bound and the URL shown.
AskLoopback ==
  /\ act[Cli].pc = "ask" /\ Grant[act[Cli].id] = "authorization_code"
  /\ \/ Go(Cli, "callback") /\ UNCHANGED <<cells, contended>>
     \/ Fail(Cli)
  /\ UNCHANGED <<now, gen, idp, disk, ring, doc, setup>>

Expired == Reached(act[Cli].deadline)
Poll ==
  /\ act[Cli].pc = "sleep" /\ Reached(act[Cli].at)
  /\ \/ /\ Expired
        /\ Fail(Cli)
     \/ /\ ~Expired
        /\ act' = [act EXCEPT ![Cli] = Posting(Cli, None)]
        /\ UNCHANGED <<cells, contended>>
  /\ UNCHANGED <<now, gen, idp, disk, ring, doc, setup>>

\* accept_callback: requests for another path or without a code are answered
\* and forgotten; an error or a foreign state ends the flow.
AcceptCallback ==
  /\ act[Cli].pc = "callback"
  /\ \E req \in {"code", "error", "foreign state"} :
       IF req = "code" THEN act' = [act EXCEPT ![Cli] = Posting(Cli, None)] /\ UNCHANGED <<cells, contended>>
       ELSE Fail(Cli)
  /\ UNCHANGED <<now, gen, idp, disk, ring, doc, setup>>

-----------------------------------------------------------------------------
(* Around them. *)

Reload ==
  /\ gen = 1 /\ gen' = 2
  /\ UNCHANGED <<now, cells, act, idp, disk, ring, doc, setup, contended>>

\* The engine stops and starts: its cells and calls are gone.
Restart ==
  /\ \E t \in Tasks : act[t].pc # "idle"
  /\ act' = [a \in Actors |-> IF a = Cli THEN act[a] ELSE Idle]
  /\ cells' = [s \in Slots |-> [tok |-> NoToken, holder |-> Cli]]
  /\ gen' = 1
  /\ contended' = contended \cup UNION {Cost(t) : t \in Tasks}
  /\ UNCHANGED <<now, idp, disk, ring, doc, setup>>

\* The operator interrupts the command line.
Interrupt ==
  /\ act[Cli].pc # "idle"
  /\ act' = [act EXCEPT ![Cli] = Idle]
  /\ contended' = contended \cup Cost(Cli)
  /\ UNCHANGED <<now, gen, cells, idp, disk, ring, doc, setup>>

KeyringFlips ==
  /\ ring.on
  /\ ring' = [ring EXCEPT !.up = ~@]
  /\ UNCHANGED <<now, gen, cells, act, idp, disk, doc, setup, contended>>

Waiting(t) == act[t].pc \in {"post", "answered"}
Tick ==
  /\ now < setup.horizon
  /\ \A a \in Actors : act[a].pc \notin {"persist", "write", "get", "send"}
  /\ \A t \in Tasks : Waiting(t) => now - act[t].at < Timeout
  /\ now' = now + 1
  /\ UNCHANGED <<gen, cells, act, idp, disk, ring, doc, setup, contended>>

Init ==
  /\ now = 0 /\ gen = 1 /\ doc = None /\ contended = {}
  /\ cells = [s \in Slots |-> [tok |-> NoToken, holder |-> Cli]]
  /\ act = [a \in Actors |-> Idle]
  /\ idp = [i \in Ids |-> [grants |-> 0, valid |-> {}]]
  /\ disk = [key |-> "none", blob |-> NoBlob]
  /\ setup \in Setups
  /\ ring = [on |-> setup.keyring, up |-> setup.keyring, map |-> None]

Step(a) ==
  \/ Enter(a) \/ Discover(a) \/ GetRefresh(a) \/ Send(a) \/ Receive(a) \/ Persist(a) \/ WriteFile(a)
Provider(a) == ProviderRefuses(a) \/ ProviderMints(a) \/ RequestFails(a)

Next ==
  \/ Resolve
  \/ \E a \in Actors : Step(a) \/ Provider(a)
  \/ ProviderGrants \/ ProviderWaits
  \/ Connect \/ AskDevice \/ AskLoopback \/ Poll \/ AcceptCallback
  \/ Reload \/ Restart \/ Interrupt \/ KeyringFlips \/ Tick

\* The locks are fair, the engine's requests time out, the clock runs, and the
\* provider answers the command line, whose client has no timeout.
Spec == Init /\ [][Next]_vars
          /\ \A a \in Actors : SF_vars(Step(a)) /\ WF_vars(Provider(a))
          /\ WF_vars(AskDevice \/ AskLoopback) /\ WF_vars(Poll) /\ WF_vars(AcceptCallback) /\ SF_vars(Tick)
-----------------------------------------------------------------------------
(* Properties. *)

\* ACTION PROPERTY: a token served from the cache is one the provider still
\* accepts, although its age is counted from the arrival of the answer and not
\* from its issue (resolve: EXPIRY_SKEW against the timeout of default_client).
CachedTokenLives ==
  [][\A t \in Tasks : Enter(t) /\ act'[t].pc = "idle" => now < cells[<<act[t].store, act[t].id>>].tok.real]_vars

\* The newest refresh token of an id, and who is about to replace it.
Current(i) == CHOOSE r \in idp[i].valid : r[1] = idp[i].grants
InFlight(i) == \E a \in Actors : act[a].id = i /\ act[a].pc \in {"post", "answered", "persist", "write"}

\* INVARIANT: unless a race, a crash or a lost answer came in between, the value
\* the engine finds for a connected variable is the refresh token its provider
\* accepts, however often it was rotated, connected again, reloaded or restarted
\* (mint and the *_connect functions over VariableTokenStore).
RefreshKept ==
  (ring.on => ring.up) =>
    \A i \in Ids \ contended :
      idp[i].grants > 0 /\ ~InFlight(i) => StoreGet("engine", i) = [ok |-> TRUE, v |-> Current(i)]

\* LIVENESS: a call of resolve returns, whoever holds the lock of its cell and
\* however that call ends; a device flow ends, however long the provider puts it
\* off (resolve, device_code_connect).
CallsEnd ==
  /\ \A t \in Tasks : act[t].pc = "lock" ~> act[t].pc = "idle"
  /\ act[Cli].pc = "sleep" ~> act[Cli].pc = "idle"
=============================================================================
