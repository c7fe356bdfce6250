---------------------------- MODULE KrpcRegistry ----------------------------
(***************************************************************************)
(* Service registration and discovery: provider processes that publish     *)
(* their methods in ZooKeeper (KrpcProvider::Run and ZkClient of           *)
(* zookeeperutil.cc), and the threads of a client process that look        *)
(* addresses up (ZkClient::Start and GetData as KrpcChannel::CallMethod    *)
(* calls them).                                                            *)
(*                                                                         *)
(* ZooKeeper itself is external.  It keeps one persistent node for the     *)
(* service and one ephemeral node per method, which disappears when the    *)
(* session that created it ends.  A session is named <<p, k>> for the k-th *)
(* process of provider p; every process of p has the same configuration    *)
(* and therefore the same ip:port, for which p stands.  Every call of the  *)
(* ZooKeeper C client is one step: another process may act between a       *)
(* zoo_exists and the zoo_create or zoo_get that relies on it.  The        *)
(* requests of a process that has ended have been carried out or dropped   *)
(* when its provider is started again.                                     *)
(***************************************************************************)
EXTENDS Naturals, FiniteSets

CONSTANTS Providers,    \* provider addresses
          Methods,      \* the methods of the service each provider publishes
          MaxProcs,     \* bound on the processes started for one provider
          Clients,      \* threads of one client process
          MaxLookups,   \* bound on the lookups of one client thread
          Crashes,      \* TRUE if provider processes may die
          Flaky         \* TRUE if a live session may lose its connection or expire

ASSUME KrpcRegistryAssumption == /\ MaxProcs \in Nat /\ MaxLookups \in Nat
                                 /\ {Crashes, Flaky} \subseteq BOOLEAN

VARIABLES svc,          \* the service's persistent node exists
          owner,        \* owner[m]: the session that owns the node of method m
          ended,        \* sessions that ZooKeeper has ended
          stage,        \* stage[p]: where the current process of p stands in Run
          proc,         \* proc[p]: number of the current process of p
          todo,         \* todo[p]: methods the loop of Run has not visited
          creating,     \* creating[p]: the method whose zoo_create comes next
          why,          \* why[p]: why the process called exit(EXIT_FAILURE)
          met,          \* met[<<p, m>>]: what zoo_exists told the process of m's node (history)
          cpc,          \* cpc[c]: where client thread c stands in its lookup
          handle,       \* handle[c]: the zhandle of c is connected
          is_connected, \* the global flag of the client process
          looks,        \* looks[c]: lookups begun
          found         \* found[c]: what GetData returned, and the node's data then

zkVars == <<svc, owner, ended>>
provVars == <<stage, proc, todo, creating, why, met>>
clientVars == <<cpc, handle, is_connected, looks, found>>
vars == <<zkVars, provVars, clientVars>>

NoSession == <<>>
NoAnswer == <<"error">> \* zoo_exists failed
NoMethod == ""
Empty == "empty"        \* GetData's "" result
Garbled == "garbled"    \* an address followed by bytes that were on the stack

Session(p) == <<p, proc[p]>>
Sessions == Providers \X (1..MaxProcs)
Dead(p) == stage[p] \in {"down", "exited"}
Goto(p, s) == stage' = [stage EXCEPT ![p] = s]

Init == /\ svc = FALSE
        /\ owner = [m \in Methods |-> NoSession]
        /\ ended = {}
        /\ stage = [p \in Providers |-> "down"]
        /\ proc = [p \in Providers |-> 0]
        /\ todo = [p \in Providers |-> {}]
        /\ creating = [p \in Providers |-> NoMethod]
        /\ why = [p \in Providers |-> "none"]
        /\ met = [x \in Providers \X Methods |-> NoSession]
        /\ cpc = [c \in Clients |-> "idle"]
        /\ handle = [c \in Clients |-> FALSE]
        /\ is_connected = FALSE
        /\ looks = [c \in Clients |-> 0]
        /\ found = [c \in Clients |-> [got |-> Empty, stored |-> NoSession]]

-----------------------------------------------------------------------------
(* A provider process is started: Run up to the wait in ZkClient::Start.   *)
StartProvider(p) ==
    /\ Dead(p)
    /\ proc[p] < MaxProcs
    /\ proc' = [proc EXCEPT ![p] = @ + 1]
    /\ Goto(p, "starting")
    /\ todo' = [todo EXCEPT ![p] = Methods]
    /\ why' = [why EXCEPT ![p] = "none"]
    /\ met' = [x \in Providers \X Methods |-> IF x[1] = p THEN NoSession ELSE met[x]]
    /\ UNCHANGED <<zkVars, creating, clientVars>>

(* exit(EXIT_FAILURE): the process ends without closing its session. *)
Exit(p, reason) == /\ Goto(p, "exited")
                   /\ why' = [why EXCEPT ![p] = reason]

(* zookeeper_init returns no handle. *)
InitFails(p) == /\ stage[p] = "starting"
                /\ Exit(p, "init")
                /\ UNCHANGED <<zkVars, proc, todo, creating, met, clientVars>>

(* The session is established, global_watcher sets is_connected, and Start *)
(* returns; the process has one ZkClient, so the flag is about this one.   *)
Connected(p) == /\ stage[p] = "starting"
                /\ Goto(p, "existsService")
                /\ UNCHANGED <<zkVars, proc, todo, creating, why, met, clientVars>>

(* A request fails for another reason than the state of the node. *)
Fails(p) == Session(p) \in ended \/ Flaky

(* ZkClient::Create for the service: zoo_exists, then zoo_create.  Every   *)
(* answer of zoo_exists but ZNONODE, errors included, skips the creation.  *)
ExistsService(p) ==
    /\ stage[p] = "existsService"
    /\ \/ (svc \/ Fails(p)) /\ Goto(p, "methods")
       \/ ~svc /\ Session(p) \notin ended /\ Goto(p, "createService")
    /\ UNCHANGED <<zkVars, proc, todo, creating, why, met, clientVars>>

(* zoo_create; one that fails for want of a connection may have created    *)
(* the node all the same.                                                  *)
CreateService(p) ==
    /\ stage[p] = "createService"
    /\ \/ /\ ~svc /\ Session(p) \notin ended
          /\ svc' = TRUE
          /\ Goto(p, "methods")
          /\ UNCHANGED why
       \/ svc /\ Exit(p, "nodeexists") /\ UNCHANGED svc
       \/ /\ Fails(p) /\ Exit(p, "session")
          /\ svc' \in {svc, svc \/ Session(p) \notin ended}
    /\ UNCHANGED <<owner, ended, proc, todo, creating, met, clientVars>>

(* Mutant: zoo_exists is not asked. *)
ExistsMethodNotAsked(p) ==
    /\ stage[p] = "methods"
    /\ \E m \in todo[p] : /\ todo' = [todo EXCEPT ![p] = @ \ {m}]
                          /\ creating' = [creating EXCEPT ![p] = m]
                          /\ Goto(p, "createMethod")
    /\ UNCHANGED <<zkVars, proc, why, met, clientVars>>

(* The loop over method_map, in the map's arbitrary order. *)
ExistsMethod(p) ==
    /\ stage[p] = "methods"
    /\ \E m \in todo[p] :
         /\ todo' = [todo EXCEPT ![p] = @ \ {m}]
         /\ \/ /\ owner[m] # NoSession
               /\ met' = [met EXCEPT ![<<p, m>>] = owner[m]]
               /\ UNCHANGED <<stage, creating>>
            \/ /\ Fails(p)
               /\ met' = [met EXCEPT ![<<p, m>>] = NoAnswer]
               /\ UNCHANGED <<stage, creating>>
            \/ /\ owner[m] = NoSession /\ Session(p) \notin ended
               /\ creating' = [creating EXCEPT ![p] = m]
               /\ Goto(p, "createMethod")
               /\ UNCHANGED met
    /\ UNCHANGED <<zkVars, proc, why, clientVars>>

(* Mutant: the result of zoo_create is not tested. *)
CreateMethodUntested(p) ==
    /\ stage[p] = "createMethod"
    /\ owner' = IF owner[creating[p]] = NoSession /\ Session(p) \notin ended
                THEN [owner EXCEPT ![creating[p]] = Session(p)] ELSE owner
    /\ Goto(p, "methods")
    /\ creating' = [creating EXCEPT ![p] = NoMethod]
    /\ UNCHANGED <<svc, ended, proc, todo, why, met, clientVars>>

CreateMethod(p) ==
    /\ stage[p] = "createMethod"
    /\ LET m == creating[p]
           Created == /\ svc /\ owner[m] = NoSession /\ Session(p) \notin ended
                      /\ owner' = [owner EXCEPT ![m] = Session(p)]
       IN  \/ Created /\ Goto(p, "methods") /\ UNCHANGED why
           \/ owner[m] # NoSession /\ Exit(p, "nodeexists") /\ UNCHANGED owner
           \/ ~svc /\ Exit(p, "nonode") /\ UNCHANGED owner
           \/ Fails(p) /\ Exit(p, "session") /\ (Created \/ UNCHANGED owner)
    /\ creating' = [creating EXCEPT ![p] = NoMethod]
    /\ UNCHANGED <<svc, ended, proc, todo, met, clientVars>>

(* server->start() and the event loop. *)
Serve(p) == /\ stage[p] = "methods"
            /\ todo[p] = {}
            /\ Goto(p, "serving")
            /\ UNCHANGED <<zkVars, proc, todo, creating, why, met, clientVars>>

Crash(p) == /\ Crashes
            /\ ~Dead(p)
            /\ Goto(p, "down")
            /\ creating' = [creating EXCEPT ![p] = NoMethod]
            /\ UNCHANGED <<zkVars, proc, todo, why, met, clientVars>>

(* ZooKeeper ends a session that it has not heard of for 6 seconds: the    *)
(* process is dead or, on a bad network, only unreachable.  global_watcher *)
(* of a live process ignores the expiry.                                   *)
Expire(s) == /\ s \notin ended
             /\ proc[s[1]] >= s[2]
             /\ proc[s[1]] > s[2] \/ Dead(s[1]) \/ (Flaky /\ stage[s[1]] # "starting")
             /\ ended' = ended \union {s}
             /\ owner' = [m \in Methods |-> IF owner[m] = s THEN NoSession ELSE owner[m]]
             /\ UNCHANGED <<svc, provVars, clientVars>>
-----------------------------------------------------------------------------
Looking(c) == cpc[c] \notin {"idle", "exited"}

(* CallMethod makes a ZkClient and calls Start: zookeeper_init returns at  *)
(* once, the wait is for the process-wide flag.                            *)
ClientStart(c) == /\ cpc[c] = "idle"
                  /\ looks[c] < MaxLookups
                  /\ looks' = [looks EXCEPT ![c] = @ + 1]
                  /\ cpc' = [cpc EXCEPT ![c] = "waiting"]
                  /\ UNCHANGED <<zkVars, provVars, handle, is_connected, found>>

(* zookeeper_init returns no handle; exit ends all threads of the client. *)
ClientExits(c) == /\ cpc[c] = "idle"
                  /\ looks[c] < MaxLookups
                  /\ cpc' = [d \in Clients |-> "exited"]
                  /\ handle' = [d \in Clients |-> FALSE]
                  /\ UNCHANGED <<zkVars, provVars, is_connected, looks, found>>

(* Mutant: the watcher does not set the flag. *)
GlobalWatcherSilent(c) == /\ Looking(c) /\ ~handle[c]
                          /\ handle' = [handle EXCEPT ![c] = TRUE]
                          /\ UNCHANGED <<zkVars, provVars, cpc, is_connected, looks, found>>

(* The ZooKeeper thread of c's handle reports ZOO_CONNECTED_STATE. *)
GlobalWatcher(c) == /\ Looking(c) /\ ~handle[c]
                    /\ handle' = [handle EXCEPT ![c] = TRUE]
                    /\ is_connected' = TRUE
                    /\ UNCHANGED <<zkVars, provVars, cpc, looks, found>>

(* cv.wait returns. *)
StartReturns(c) == /\ cpc[c] = "waiting"
                   /\ is_connected
                   /\ cpc' = [cpc EXCEPT ![c] = "exists"]
                   /\ UNCHANGED <<zkVars, provVars, handle, is_connected, looks, found>>

(* The lookup ends; ~ZkClient closes the handle. *)
Found(c, got, stored) == /\ cpc' = [cpc EXCEPT ![c] = "idle"]
                         /\ handle' = [handle EXCEPT ![c] = FALSE]
                         /\ found' = [found EXCEPT ![c] = [got |-> got, stored |-> stored]]

(* GetData, zoo_exists: blocks while the handle is connecting. *)
ExistsData(c, m) == /\ cpc[c] = "exists"
                    /\ \/ /\ handle[c] /\ owner[m] # NoSession
                          /\ cpc' = [cpc EXCEPT ![c] = m]
                          /\ UNCHANGED <<handle, found>>
                       \/ handle[c] /\ owner[m] = NoSession /\ Found(c, Empty, NoSession)
                       \/ Flaky /\ Found(c, Empty, NoSession)
                    /\ UNCHANGED <<zkVars, provVars, is_connected, looks>>

(* GetData, zoo_get.  It does not terminate the bytes it copies and buf is *)
(* not initialized, so what follows the address is whatever was there.     *)
GetData(c) == /\ cpc[c] \in Methods
              /\ LET s == owner[cpc[c]]
                 IN  \/ s = NoSession /\ Found(c, Empty, NoSession)
                     \/ /\ s # NoSession
                        /\ \E got \in {s[1], Garbled} : Found(c, got, s)
                     \/ Flaky /\ Found(c, Empty, s)
              /\ UNCHANGED <<zkVars, provVars, is_connected, looks>>
-----------------------------------------------------------------------------
Register(p) == \/ Connected(p) \/ ExistsService(p) \/ CreateService(p)
               \/ ExistsMethod(p) \/ CreateMethod(p) \/ Serve(p)

Lookup(c) == StartReturns(c) \/ (\E m \in Methods : ExistsData(c, m)) \/ GetData(c)

Next == \/ \E p \in Providers : StartProvider(p) \/ InitFails(p) \/ Register(p) \/ Crash(p)
        \/ \E s \in Sessions : Expire(s)
        \/ \E c \in Clients : ClientStart(c) \/ ClientExits(c) \/ GlobalWatcher(c) \/ Lookup(c)

SafeSpec == Init /\ [][Next]_vars

(* Processes run, ZooKeeper accepts connections and ends the sessions of   *)
(* dead processes, not of live ones; nobody must start, crash or look      *)
(* anything up.                                                            *)
Orphaned(s) == proc[s[1]] > s[2] \/ Dead(s[1])

Spec == /\ SafeSpec
        /\ \A p \in Providers : WF_vars(Register(p))
        /\ \A s \in Sessions : WF_vars(Orphaned(s) /\ Expire(s))
        /\ \A c \in Clients : WF_vars(GlobalWatcher(c)) /\ WF_vars(Lookup(c))
-----------------------------------------------------------------------------
(* Type invariant. *)
TypeOK == /\ svc \in BOOLEAN
          /\ owner \in [Methods -> Sessions \union {NoSession}]
          /\ ended \subseteq Sessions
          /\ stage \in [Providers -> {"down", "starting", "existsService", "createService",
                                      "methods", "createMethod", "serving", "exited"}]
          /\ proc \in [Providers -> 0..MaxProcs]
          /\ todo \in [Providers -> SUBSET Methods]
          /\ creating \in [Providers -> Methods \union {NoMethod}]
          /\ why \in [Providers -> {"none", "init", "nodeexists", "nonode", "session"}]
          /\ met \in [Providers \X Methods -> Sessions \union {NoSession, NoAnswer}]
          /\ cpc \in [Clients -> {"idle", "waiting", "exists", "exited"} \union Methods]
          /\ handle \in [Clients -> BOOLEAN]
          /\ is_connected \in BOOLEAN
          /\ looks \in [Clients -> 0..MaxLookups]
          /\ found \in [Clients -> [got : Providers \union {Empty, Garbled},
                                    stored : Sessions \union {NoSession}]]

(* A provider that serves relies, for each of its methods, on one session: *)
(* the one that owned the node when zoo_exists was asked, or else its own. *)
(* That session has the node still, and is the provider's own unless some  *)
(* other had it first, as long as the session lasts; it ends when its      *)
(* process is dead, or on an unreliable network, and Run never notices.    *)
(* Nothing else leaves a serving provider's method unlisted but a          *)
(* zoo_exists that failed.                                                 *)
ReliesOn(p, m) == IF met[<<p, m>>] = NoSession THEN Session(p) ELSE met[<<p, m>>]

ServingIsListed ==
    \A p \in Providers, m \in Methods : stage[p] = "serving" =>
        LET s == ReliesOn(p, m)
        IN  \/ s = NoAnswer /\ Flaky
            \/ s \in ended /\ (Orphaned(s) \/ Flaky)
            \/ owner[m] = s

(* A provider exits only because it got no handle, and then it has         *)
(* published nothing, because another provider created the same node       *)
(* between its zoo_exists and its zoo_create, or because ZooKeeper was     *)
(* unreachable for a while.                                                *)
ExitExplained ==
    \A p \in Providers : stage[p] = "exited" =>
        \/ why[p] = "init" /\ \A m \in Methods : owner[m] # Session(p)
        \/ why[p] = "nodeexists" /\ \E q \in Providers \ {p} : proc[q] > 0
        \/ why[p] \in {"session", "nonode"} /\ Flaky

(* Every lookup that was begun returns, unless the process exits because a *)
(* thread of it got no handle.                                             *)
LookupReturns == \A c \in Clients : Looking(c) ~> ~Looking(c)
=============================================================================
