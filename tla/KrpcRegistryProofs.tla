------------------------- MODULE KrpcRegistryProofs -------------------------
(***************************************************************************)
(* Proofs about KrpcRegistry for any number of providers, methods,         *)
(* processes and lookups: every exit of a provider has one of the reasons  *)
(* named, and so has every method of a serving provider that is not listed *)
(* under the session the provider relies on.  At the end, proofs about     *)
(* KrpcConfig, from which providers and clients take their addresses.      *)
(***************************************************************************)
EXTENDS KrpcRegistry, KrpcConfig, SequenceTheorems, WellFoundedInduction, TLAPS

Running == {"existsService", "createService", "methods", "createMethod", "serving"}

(* Types of what registration works on. *)
RegTypes ==
    /\ svc \in BOOLEAN
    /\ owner \in [Methods -> Sessions \union {NoSession}]
    /\ ended \subseteq Sessions
    /\ stage \in [Providers -> Running \union {"down", "starting", "exited"}]
    /\ proc \in [Providers -> 0..MaxProcs]
    /\ todo \in [Providers -> SUBSET Methods]
    /\ creating \in [Providers -> Methods \union {NoMethod}]
    /\ why \in [Providers -> {"none", "init", "nodeexists", "nonode", "session"}]
    /\ met \in [Providers \X Methods -> Sessions \union {NoSession, NoAnswer}]

(* Another provider than p has been started. *)
Rival(p) == \E q \in Providers \ {p} : proc[q] > 0

(* Sessions belong to processes that were started; the session of a live   *)
(* process ends only on an unreliable network, and it owns nothing while   *)
(* the process waits for it.                                               *)
SessionsInv ==
    /\ \A p \in Providers : stage[p] # "down" => proc[p] > 0
    /\ \A m \in Methods : owner[m] # NoSession => owner[m][2] <= proc[owner[m][1]]
    /\ \A s \in ended : s[2] <= proc[s[1]] /\ (Orphaned(s) \/ Flaky)
    /\ \A p \in Providers, m \in Methods : stage[p] = "starting" => owner[m] # Session(p)

(* What a process has passed on its way through Run. *)
ProgressInv ==
    \A p \in Providers :
        /\ stage[p] \in {"starting", "existsService", "createService"} => todo[p] = Methods
        /\ stage[p] = "createMethod" => creating[p] \in Methods
        /\ stage[p] \in {"methods", "createMethod"} /\ ~svc => Flaky
        /\ stage[p] = "serving" => todo[p] = {}

(* A node that appears between zoo_exists and zoo_create is a rival's. *)
RaceInv ==
    \A p \in Providers :
        /\ stage[p] = "createService" /\ svc => Rival(p)
        /\ stage[p] = "createMethod" /\ owner[creating[p]] # NoSession => Rival(p)

(* The loop has asked zoo_exists of the methods it has visited, of no      *)
(* other; each of these relies on a session that has its node or has ended.*)
Visited(p, m) == m \notin todo[p] /\ (stage[p] = "createMethod" => m # creating[p])

MetInv == \A p \in Providers, m \in Methods : ~Visited(p, m) => met[<<p, m>>] = NoSession

Relied(p, m) == LET s == ReliesOn(p, m)
                IN  (s = NoAnswer /\ Flaky) \/ s \in ended \/ owner[m] = s

InLoop(p) == stage[p] \in {"methods", "createMethod", "serving"}

ListedInv == \A p \in Providers, m \in Methods : InLoop(p) /\ Visited(p, m) => Relied(p, m)

RegInv == /\ RegTypes /\ SessionsInv /\ ProgressInv /\ RaceInv
          /\ MetInv /\ ListedInv /\ ExitExplained
-----------------------------------------------------------------------------
(* A session is a pair, and no session is the absence of one. *)
LEMMA SessionPair ==
    /\ \A s \in Sessions : /\ s = <<s[1], s[2]>> /\ s # NoSession
                           /\ s[1] \in Providers /\ s[2] \in 1..MaxProcs
    /\ \A p \in Providers, k \in 1..MaxProcs :
          <<p, k>> \in Sessions /\ <<p, k>> # NoSession /\ <<p, k>>[1] = p /\ <<p, k>>[2] = k
<1>1. \A s \in Sessions : /\ s = <<s[1], s[2]>>
                          /\ s[1] \in Providers /\ s[2] \in 1..MaxProcs
  BY DEF Sessions
<1>2. \A p \in Providers, k \in 1..MaxProcs :
         <<p, k>> \in Sessions /\ <<p, k>>[1] = p /\ <<p, k>>[2] = k
  BY DEF Sessions
<1>3. \A x, y : <<x, y>> # NoSession
  BY DEF NoSession
<1> QED
  BY <1>1, <1>2, <1>3

(* The session of a process that has been started. *)
LEMMA OwnSession ==
    ASSUME RegTypes, NEW p \in Providers, proc[p] > 0
    PROVE  Session(p) \in Sessions /\ Session(p) # NoSession
           /\ Session(p)[1] = p /\ Session(p)[2] = proc[p]
<1>1. proc[p] \in 1..MaxProcs
  BY KrpcRegistryAssumption DEF RegTypes
<1> QED
  BY <1>1, SessionPair DEF Session

(* Nothing relies on the absence of a session. *)
LEMMA ReliedOn ==
    ASSUME RegTypes, NEW p \in Providers, NEW m \in Methods
    PROVE  /\ ReliesOn(p, m) # NoSession
           /\ met[<<p, m>>] \in Sessions \union {NoSession, NoAnswer}
<1>1. \A x, y : <<x, y>> # NoSession
  BY DEF NoSession
<1> QED
  BY <1>1 DEF ReliesOn, Session, RegTypes

(* Initially nothing is registered and nobody runs. *)
LEMMA RegInit == Init => RegInv
<1> SUFFICES ASSUME Init PROVE RegInv
  OBVIOUS
<1>1. RegTypes
  <2>1. proc \in [Providers -> 0..MaxProcs]
    <3>1. 0 \in 0..MaxProcs
      BY KrpcRegistryAssumption
    <3> QED
      BY <3>1 DEF Init
  <2> QED
    BY <2>1 DEF Init, RegTypes
<1>2. SessionsInv /\ ProgressInv /\ RaceInv /\ ListedInv /\ ExitExplained
  BY DEF Init, SessionsInv, ProgressInv, RaceInv, ListedInv, InLoop, ExitExplained
<1>3. MetInv
  BY DEF Init, MetInv
<1> QED
  BY <1>1, <1>2, <1>3 DEF RegInv

(* A method that was visited before is still listed, if its node and what  *)
(* the process was told of it do not change.                               *)
LEMMA ListedKept ==
    ASSUME ListedInv, NEW q \in Providers, NEW m \in Methods, InLoop(q), Visited(q, m),
           proc'[q] = proc[q], met'[<<q, m>>] = met[<<q, m>>],
           ended \subseteq ended', owner'[m] = owner[m]
    PROVE  Relied(q, m)'
<1>1. Relied(q, m)
  BY DEF ListedInv
<1>2. ReliesOn(q, m)' = ReliesOn(q, m)
  BY DEF ReliesOn, Session
<1> QED
  BY <1>1, <1>2 DEF Relied

(* The same of a whole step that moves processes on in front of the loop   *)
(* or out of it and changes no node.                                       *)
LEMMA ListedUnmoved ==
    ASSUME ListedInv, MetInv, UNCHANGED <<owner, ended, proc, todo, met>>,
           \A q \in Providers : InLoop(q)' =>
               todo[q] = Methods
               \/ (InLoop(q) /\ \A m \in Methods : Visited(q, m)' => Visited(q, m))
    PROVE  ListedInv'
<1> SUFFICES ASSUME NEW q \in Providers, NEW m \in Methods, InLoop(q)', Visited(q, m)'
             PROVE  Relied(q, m)'
  BY DEF ListedInv
<1>1. InLoop(q) /\ Visited(q, m)
  BY DEF Visited
<1> QED
  BY <1>1, ListedKept

(* A process that moves on leaves the sessions as they are. *)
LEMMA SessionsKept ==
    ASSUME RegTypes, SessionsInv, UNCHANGED <<owner, ended, proc>>,
           \A q \in Providers : /\ Dead(q) => Dead(q)'
                                /\ stage'[q] = "starting" => stage[q] = "starting"
                                /\ stage'[q] # "down" => stage[q] # "down"
    PROVE  SessionsInv'
<1>1. \A s \in ended : Orphaned(s) => Orphaned(s)'
  BY SessionPair DEF RegTypes, Orphaned
<1>2. \A q \in Providers : Session(q)' = Session(q)
  BY DEF Session
<1> QED
  BY <1>1, <1>2 DEF SessionsInv

(* Starting a process: its session is new, and everything is to be done. *)
LEMMA StartProviderStep ==
    ASSUME RegInv, NEW p \in Providers, StartProvider(p)
    PROVE  RegInv'
<1> USE KrpcRegistryAssumption DEF RegInv, StartProvider, zkVars, Goto
<1>1. RegTypes'
  <2>1. met' \in [Providers \X Methods -> Sessions \union {NoSession, NoAnswer}]
    BY DEF RegTypes
  <2> QED
    BY <2>1 DEF RegTypes, Running
<1>2. \A q \in Providers : proc'[q] = IF q = p THEN proc[q] + 1 ELSE proc[q]
  BY DEF RegTypes
<1>3. \A q \in Providers, m \in Methods :
         met'[<<q, m>>] = IF q = p THEN NoSession ELSE met[<<q, m>>]
  OBVIOUS
<1>4. SessionsInv'
  <2>1. \A s \in Sessions : s[2] <= proc[s[1]] => s[2] <= proc'[s[1]]
    BY <1>2, SessionPair DEF RegTypes
  <2>2. \A s \in ended : s[2] <= proc'[s[1]] /\ (Orphaned(s)' \/ Flaky)
    <3> SUFFICES ASSUME NEW s \in ended
                 PROVE  s[2] <= proc'[s[1]] /\ (Orphaned(s)' \/ Flaky)
      OBVIOUS
    <3>1. s \in Sessions /\ s[1] \in Providers /\ s[2] \in Nat /\ s[2] <= proc[s[1]]
          /\ (Orphaned(s) \/ Flaky)
      BY SessionPair DEF RegTypes, SessionsInv
    <3>2. CASE s[1] = p
      BY <3>1, <3>2, <1>2 DEF RegTypes, Orphaned
    <3>3. CASE s[1] # p
      BY <3>1, <3>3, <1>2 DEF RegTypes, Orphaned, Dead
    <3> QED
      BY <3>2, <3>3
  <2>3. \A q \in Providers, m \in Methods : stage'[q] = "starting" => owner'[m] # Session(q)'
    <3> SUFFICES ASSUME NEW q \in Providers, NEW m \in Methods, stage'[q] = "starting",
                        owner[m] = Session(q)'
                 PROVE  FALSE
      OBVIOUS
    <3>1. CASE q = p
      <4>1. proc'[p] \in 1..MaxProcs
        BY <1>2 DEF RegTypes
      <4>2. Session(p)' # NoSession /\ Session(p)'[1] = p /\ Session(p)'[2] = proc'[p]
        BY <4>1, SessionPair DEF Session
      <4> QED
        BY <3>1, <4>2, <1>2 DEF SessionsInv, RegTypes
    <3>2. CASE q # p
      BY <3>2, <1>2 DEF Session, SessionsInv, RegTypes
    <3> QED
      BY <3>1, <3>2
  <2> QED
    BY <1>1, <1>2, <2>1, <2>2, <2>3, SessionPair DEF RegTypes, SessionsInv
<1>5. \A q \in Providers : Rival(q) => Rival(q)'
  BY <1>2 DEF RegTypes, Rival
<1>6. ProgressInv'
  BY DEF RegTypes, ProgressInv
<1>7. RaceInv'
  BY <1>5 DEF RegTypes, RaceInv
<1>8. MetInv'
  BY <1>3 DEF RegTypes, MetInv, Visited
<1>9. ListedInv'
  <2> SUFFICES ASSUME NEW q \in Providers, NEW m \in Methods, InLoop(q)', Visited(q, m)'
               PROVE  Relied(q, m)'
    BY DEF ListedInv
  <2>1. q # p /\ InLoop(q) /\ Visited(q, m)
    BY DEF RegTypes, InLoop, Visited
  <2> QED
    BY <2>1, <1>2, <1>3, ListedKept
<1>10. ExitExplained'
  <2> SUFFICES ASSUME NEW q \in Providers, stage'[q] = "exited"
               PROVE  \/ why'[q] = "init" /\ \A m \in Methods : owner'[m] # Session(q)'
                      \/ why'[q] = "nodeexists" /\ Rival(q)'
                      \/ why'[q] \in {"session", "nonode"} /\ Flaky
    BY DEF ExitExplained, Rival
  <2>1. q # p /\ stage[q] = "exited" /\ why'[q] = why[q] /\ Session(q)' = Session(q)
    BY <1>2 DEF RegTypes, Session
  <2> QED
    BY <2>1, <1>5 DEF ExitExplained, Rival
<1> QED
  BY <1>1, <1>4, <1>6, <1>7, <1>8, <1>9, <1>10

(* Steps that only move a process on: its registration does not change. *)
LEMMA ConnectedStep ==
    ASSUME RegInv, NEW p \in Providers, Connected(p)
    PROVE  RegInv'
<1> USE DEF RegInv, Connected, zkVars, Goto
<1>1. RegTypes'
  BY DEF RegTypes, Running
<1>2. SessionsInv'
  BY SessionsKept DEF RegTypes, Dead
<1>3. ProgressInv' /\ RaceInv'
  BY DEF RegTypes, ProgressInv, RaceInv, Rival
<1>4. MetInv'
  BY DEF RegTypes, MetInv, Visited
<1>5. ListedInv'
  BY ListedUnmoved DEF RegTypes, InLoop, Visited
<1>6. ExitExplained'
  BY DEF RegTypes, ExitExplained, Session
<1> QED
  BY <1>1, <1>2, <1>3, <1>4, <1>5, <1>6

(* Without a handle nothing can have been created. *)
LEMMA InitFailsStep ==
    ASSUME RegInv, NEW p \in Providers, InitFails(p)
    PROVE  RegInv'
<1> USE DEF RegInv, InitFails, Exit, zkVars, Goto
<1>1. RegTypes'
  BY DEF RegTypes, Running
<1>2. SessionsInv'
  BY SessionsKept DEF RegTypes, Dead
<1>3. ProgressInv' /\ RaceInv'
  BY DEF RegTypes, ProgressInv, RaceInv, Rival
<1>4. MetInv'
  BY DEF RegTypes, MetInv, Visited
<1>5. ListedInv'
  BY ListedUnmoved DEF RegTypes, InLoop, Visited
<1>6. ExitExplained'
  BY DEF RegTypes, ExitExplained, SessionsInv, Session
<1> QED
  BY <1>1, <1>2, <1>3, <1>4, <1>5, <1>6

(* zoo_exists of the service: an error without its node means Flaky. *)
LEMMA ExistsServiceStep ==
    ASSUME RegInv, NEW p \in Providers, ExistsService(p)
    PROVE  RegInv'
<1> USE DEF RegInv, ExistsService, zkVars, Goto
<1>1. RegTypes'
  BY DEF RegTypes, Running
<1>2. SessionsInv'
  BY SessionsKept DEF RegTypes, Dead
<1>3. Fails(p) => Flaky
  BY SessionPair, KrpcRegistryAssumption DEF Fails, SessionsInv, RegTypes, Orphaned, Session, Dead
<1>4. ProgressInv'
  BY <1>3 DEF RegTypes, ProgressInv
<1>5. RaceInv'
  BY DEF RegTypes, RaceInv, Rival
<1>6. MetInv'
  BY DEF RegTypes, MetInv, Visited
<1>7. ListedInv'
  BY ListedUnmoved DEF RegTypes, InLoop, Visited, ProgressInv
<1>8. ExitExplained'
  BY DEF RegTypes, ExitExplained, Session
<1> QED
  BY <1>1, <1>2, <1>4, <1>5, <1>6, <1>7, <1>8

(* zoo_create of the service: for the others it is a rival's node. *)
LEMMA CreateServiceStep ==
    ASSUME RegInv, NEW p \in Providers, CreateService(p)
    PROVE  RegInv'
<1> USE DEF RegInv, CreateService, Exit, Goto
<1>1. RegTypes'
  <2>1. svc' \in BOOLEAN
    BY DEF RegTypes
  <2>2. stage' \in [Providers -> Running \union {"down", "starting", "exited"}]
    BY DEF RegTypes, Running
  <2>3. why' \in [Providers -> {"none", "init", "nodeexists", "nonode", "session"}]
    BY DEF RegTypes
  <2> QED
    BY <2>1, <2>2, <2>3 DEF RegTypes
<1>2. SessionsInv'
  BY SessionsKept DEF RegTypes, Dead
<1>3. Fails(p) => Flaky
  BY SessionPair, KrpcRegistryAssumption DEF Fails, SessionsInv, RegTypes, Orphaned, Session, Dead
<1>4. ProgressInv'
  BY DEF RegTypes, ProgressInv
<1>5. \A q \in Providers \ {p} : Rival(q)
  BY DEF Rival, SessionsInv
<1>6. RaceInv'
  BY <1>5 DEF RegTypes, RaceInv, Rival
<1>7. MetInv'
  BY DEF RegTypes, MetInv, Visited
<1>8. ListedInv'
  BY ListedUnmoved DEF RegTypes, InLoop, Visited, ProgressInv
<1>9. ExitExplained'
  BY <1>3 DEF RegTypes, RaceInv, ExitExplained, Rival, Session
<1> QED
  BY <1>1, <1>2, <1>4, <1>6, <1>7, <1>8, <1>9

(* zoo_exists of a method: what is there is what the process relies on. *)
LEMMA ExistsMethodStep ==
    ASSUME RegInv, NEW p \in Providers, ExistsMethod(p)
    PROVE  RegInv'
<1> USE DEF RegInv, ExistsMethod, zkVars, Goto
<1>1. RegTypes'
  <2>1. stage' \in [Providers -> Running \union {"down", "starting", "exited"}]
    BY DEF RegTypes, Running
  <2>2. todo' \in [Providers -> SUBSET Methods]
        /\ creating' \in [Providers -> Methods \union {NoMethod}]
    BY DEF RegTypes
  <2>3. met' \in [Providers \X Methods -> Sessions \union {NoSession, NoAnswer}]
    BY DEF RegTypes
  <2> QED
    BY <2>1, <2>2, <2>3 DEF RegTypes
<1>2. SessionsInv'
  <2>1. UNCHANGED <<owner, ended, proc>>
    OBVIOUS
  <2>2. \A q \in Providers : \/ stage'[q] = stage[q]
                             \/ stage[q] = "methods" /\ stage'[q] = "createMethod"
    BY DEF RegTypes
  <2> QED
    BY <2>1, <2>2, SessionsKept DEF Dead
<1>3. ProgressInv'
  BY DEF RegTypes, ProgressInv
<1>4. RaceInv'
  BY DEF RegTypes, RaceInv, Rival
<1>5. PICK m \in todo[p] :
         /\ todo' = [todo EXCEPT ![p] = @ \ {m}]
         /\ \/ /\ owner[m] # NoSession
               /\ met' = [met EXCEPT ![<<p, m>>] = owner[m]]
               /\ UNCHANGED <<stage, creating>>
            \/ /\ Fails(p)
               /\ met' = [met EXCEPT ![<<p, m>>] = NoAnswer]
               /\ UNCHANGED <<stage, creating>>
            \/ /\ owner[m] = NoSession /\ Session(p) \notin ended
               /\ creating' = [creating EXCEPT ![p] = m]
               /\ stage' = [stage EXCEPT ![p] = "createMethod"]
               /\ UNCHANGED met
  OBVIOUS
<1>6. m \in Methods /\ stage[p] = "methods" /\ <<p, m>> \in Providers \X Methods
  BY DEF RegTypes
<1>7. \A q \in Providers, n \in Methods :
         <<q, n>> # <<p, m>> => met'[<<q, n>>] = met[<<q, n>>]
  BY <1>5 DEF RegTypes
<1>8. \A q \in Providers, n \in Methods : Visited(q, n) => Visited(q, n)'
  BY <1>5, <1>6 DEF RegTypes, Visited
<1>9. \A q \in Providers, n \in Methods :
         Visited(q, n)' => Visited(q, n) \/ (q = p /\ n = m /\ met' # met)
                           \/ (q = p /\ n = m /\ UNCHANGED stage)
  BY <1>5, <1>6 DEF RegTypes, Visited
<1>10. MetInv'
  <2> SUFFICES ASSUME NEW q \in Providers, NEW n \in Methods, ~Visited(q, n)'
               PROVE  met'[<<q, n>>] = NoSession
    BY DEF MetInv
  <2>1. met[<<q, n>>] = NoSession
    BY <1>8 DEF MetInv
  <2>2. CASE q = p /\ n = m
    <3>1. met' = met
      BY <2>2, <1>5, <1>6 DEF RegTypes, Visited
    <3> QED
      BY <2>1, <3>1
  <2>3. CASE ~(q = p /\ n = m)
    BY <2>1, <2>3, <1>7
  <2> QED
    BY <2>2, <2>3
<1>11. ListedInv'
  <2> SUFFICES ASSUME NEW q \in Providers, NEW n \in Methods, InLoop(q)', Visited(q, n)'
               PROVE  Relied(q, n)'
    BY DEF ListedInv
  <2>1. InLoop(q)
    BY <1>5, <1>6 DEF RegTypes, InLoop
  <2>2. CASE q = p /\ n = m
    <3>1. UNCHANGED stage
      BY <2>2, <1>5, <1>6 DEF RegTypes, Visited
    <3>2. \/ owner[m] # NoSession /\ met'[<<p, m>>] = owner[m]
          \/ Fails(p) /\ met'[<<p, m>>] = NoAnswer
      BY <3>1, <1>5, <1>6 DEF RegTypes
    <3>3. Fails(p) => Flaky
      BY <1>6, SessionPair, KrpcRegistryAssumption
         DEF Fails, SessionsInv, RegTypes, Orphaned, Session, Dead
    <3>4. NoAnswer # NoSession
      BY DEF NoAnswer, NoSession
    <3> QED
      BY <2>2, <3>2, <3>3, <3>4 DEF Relied, ReliesOn
  <2>3. CASE ~(q = p /\ n = m)
    <3>1. Visited(q, n)
      BY <2>3, <1>9
    <3>2. met'[<<q, n>>] = met[<<q, n>>]
      BY <2>3, <1>7
    <3> QED
      BY <2>1, <3>1, <3>2, ListedKept
  <2> QED
    BY <2>2, <2>3
<1>12. ExitExplained'
  BY DEF RegTypes, ExitExplained, Session
<1> QED
  BY <1>1, <1>2, <1>3, <1>4, <1>10, <1>11, <1>12

(* zoo_create of a method: if the node is made, it is p's own. *)
LEMMA CreateMethodStep ==
    ASSUME RegInv, NEW p \in Providers, CreateMethod(p)
    PROVE  RegInv'
<1> USE DEF RegInv, CreateMethod, Exit, Goto
<1>1. creating[p] \in Methods /\ proc[p] > 0 /\ stage[p] = "createMethod"
  BY DEF ProgressInv, SessionsInv
<1>2. Session(p) \in Sessions /\ Session(p) # NoSession /\ Session(p)[1] = p
      /\ Session(p)[2] = proc[p]
  BY <1>1, OwnSession
<1>3. RegTypes'
  BY <1>1, <1>2 DEF RegTypes, Running
<1>4. \A m \in Methods : \/ owner'[m] = owner[m]
                         \/ m = creating[p] /\ owner[m] = NoSession /\ owner'[m] = Session(p)
  BY DEF RegTypes
<1>5. \A q \in Providers : q # p => Session(q) # Session(p) /\ stage'[q] = stage[q]
                                    /\ why'[q] = why[q] /\ creating'[q] = creating[q]
  BY DEF Session, RegTypes
<1>6. stage'[p] \in {"methods", "exited"}
  BY DEF RegTypes
<1>7. SessionsInv'
  <2>1. \A m \in Methods : owner'[m] # NoSession => owner'[m][2] <= proc'[owner'[m][1]]
    BY <1>2, <1>4, KrpcRegistryAssumption DEF RegTypes, SessionsInv
  <2>2. \A s \in ended : Orphaned(s) => Orphaned(s)'
    BY <1>1, SessionPair DEF RegTypes, Orphaned, Dead
  <2>3. \A q \in Providers, m \in Methods : stage'[q] = "starting" => owner'[m] # Session(q)'
    BY <1>4, <1>5, <1>6 DEF SessionsInv, Session
  <2> QED
    BY <1>1, <1>5, <2>1, <2>2, <2>3 DEF SessionsInv
<1>8. Fails(p) => Flaky
  BY <1>1, SessionPair, KrpcRegistryAssumption
     DEF Fails, SessionsInv, RegTypes, Orphaned, Session, Dead
<1>9. ProgressInv'
  BY DEF RegTypes, ProgressInv
<1>10. \A q \in Providers \ {p} : Rival(q)
  BY <1>1 DEF Rival
<1>11. RaceInv'
  BY <1>10 DEF RegTypes, RaceInv, Rival
<1>12. /\ \A q \in Providers, m \in Methods :
             ~(q = p /\ m = creating[p]) => (Visited(q, m)' <=> Visited(q, m))
       /\ Visited(p, creating[p]) <=> FALSE
  <2>1. \A q \in Providers, m \in Methods : q # p => (Visited(q, m)' <=> Visited(q, m))
    BY <1>5 DEF Visited
  <2>2. \A m \in Methods : m # creating[p] => (Visited(p, m)' <=> Visited(p, m))
    BY <1>1, <1>6 DEF Visited
  <2>3. ~Visited(p, creating[p])
    BY <1>1 DEF Visited
  <2> QED
    BY <2>1, <2>2, <2>3
<1>13. MetInv'
  <2> SUFFICES ASSUME NEW q \in Providers, NEW m \in Methods, ~Visited(q, m)'
               PROVE  met[<<q, m>>] = NoSession
    BY DEF MetInv
  <2>1. ~Visited(q, m)
    BY <1>1, <1>12 DEF Visited
  <2> QED
    BY <2>1 DEF MetInv
<1>14. ListedInv'
  <2> SUFFICES ASSUME NEW q \in Providers, NEW m \in Methods, InLoop(q)', Visited(q, m)'
               PROVE  Relied(q, m)'
    BY DEF ListedInv
  <2>1. ReliesOn(q, m)' = ReliesOn(q, m) /\ ReliesOn(q, m) # NoSession
    BY ReliedOn DEF ReliesOn, Session
  <2>2. CASE q = p /\ m = creating[p]
    <3>1. met[<<p, m>>] = NoSession
      BY <1>1, <2>2 DEF MetInv, Visited
    <3>2. owner'[m] = Session(p)
      BY <1>1, <1>6, <2>2 DEF InLoop, RegTypes
    <3> QED
      BY <2>1, <2>2, <3>1, <3>2 DEF Relied, ReliesOn
  <2>3. CASE ~(q = p /\ m = creating[p])
    <3>1. InLoop(q) /\ Visited(q, m)
      BY <1>1, <1>5, <1>12, <2>3 DEF InLoop
    <3>2. Relied(q, m)
      BY <3>1 DEF ListedInv
    <3>3. owner[m] # NoSession => owner'[m] = owner[m]
      BY <1>4
    <3> QED
      BY <2>1, <3>2, <3>3 DEF Relied
  <2> QED
    BY <2>2, <2>3
<1>15. ExitExplained'
  <2>1. stage'[p] = "exited" => \/ why'[p] = "nodeexists" /\ Rival(p)'
                                \/ why'[p] \in {"session", "nonode"} /\ Flaky
    BY <1>1, <1>8 DEF RegTypes, ProgressInv, RaceInv, Rival
  <2>2. ASSUME NEW q \in Providers, q # p, stage'[q] = "exited"
        PROVE  \/ why'[q] = "init" /\ \A m \in Methods : owner'[m] # Session(q)'
               \/ why'[q] = "nodeexists" /\ Rival(q)'
               \/ why'[q] \in {"session", "nonode"} /\ Flaky
    BY <2>2, <1>4, <1>5 DEF ExitExplained, Rival, Session
  <2> QED
    BY <2>1, <2>2 DEF ExitExplained, Rival
<1> QED
  BY <1>3, <1>7, <1>9, <1>11, <1>13, <1>14, <1>15

(* The process serves, or dies. *)
LEMMA ServeStep ==
    ASSUME RegInv, NEW p \in Providers, Serve(p) \/ Crash(p)
    PROVE  RegInv'
<1> USE DEF RegInv, Serve, Crash, zkVars, Goto
<1>1. RegTypes'
  BY DEF RegTypes, Running
<1>2. SessionsInv'
  BY SessionsKept DEF RegTypes, Dead
<1>3. ProgressInv'
  BY DEF RegTypes, ProgressInv
<1>8. RaceInv'
  BY DEF RegTypes, RaceInv, Rival
<1>4. MetInv'
  BY DEF RegTypes, MetInv, Visited
<1>5. ListedInv'
  <2>1. \A q \in Providers : InLoop(q)' =>
            InLoop(q) /\ \A m \in Methods : Visited(q, m)' => Visited(q, m)
    BY DEF RegTypes, InLoop, Visited
  <2> QED
    BY <2>1, ListedUnmoved
<1>6. ExitExplained'
  BY DEF RegTypes, ExitExplained, Session, Dead
<1> QED
  BY <1>1, <1>2, <1>3, <1>8, <1>4, <1>5, <1>6

(* A session ends: its nodes go, and whoever relied on it is excused. *)
LEMMA ExpireStep ==
    ASSUME RegInv, NEW s \in Sessions, Expire(s)
    PROVE  RegInv'
<1> USE DEF RegInv, Expire, provVars
<1>1. RegTypes'
  BY DEF RegTypes
<1>2. \A m \in Methods : owner'[m] = owner[m] \/ (owner[m] = s /\ owner'[m] = NoSession)
  OBVIOUS
<1>3. s = <<s[1], s[2]>> /\ s[1] \in Providers /\ s[2] \in 1..MaxProcs
  BY SessionPair
<1>4. \A q \in Providers : Session(q) # NoSession
  BY DEF Session, NoSession
<1>5. SessionsInv'
  <2>1. \A t \in ended' : t[2] <= proc'[t[1]] /\ (Orphaned(t)' \/ Flaky)
    BY <1>3 DEF SessionsInv, Orphaned, Dead, RegTypes
  <2> QED
    BY <1>2, <1>4, <2>1 DEF RegTypes, SessionsInv, Session
<1>6. ProgressInv' /\ RaceInv'
  BY <1>1, <1>2 DEF RegTypes, ProgressInv, RaceInv, Rival
<1>7. MetInv'
  BY DEF MetInv, Visited
<1>8. ListedInv'
  <2> SUFFICES ASSUME NEW q \in Providers, NEW m \in Methods, InLoop(q)', Visited(q, m)'
               PROVE  Relied(q, m)'
    BY DEF ListedInv
  <2>1. Relied(q, m)
    BY DEF ListedInv, InLoop, Visited
  <2>2. ReliesOn(q, m)' = ReliesOn(q, m)
    BY DEF ReliesOn, Session
  <2> QED
    BY <1>2, <2>1, <2>2 DEF Relied
<1>9. ExitExplained'
  BY <1>2, <1>4 DEF ExitExplained, Session
<1> QED
  BY <1>1, <1>5, <1>6, <1>7, <1>8, <1>9

(* Lookups and steps of nobody leave the registry alone. *)
LEMMA LookupStep ==
    ASSUME RegInv, UNCHANGED <<zkVars, provVars>>
    PROVE  RegInv'
<1> USE DEF RegInv, zkVars, provVars
<1>1. RegTypes' /\ SessionsInv' /\ ProgressInv' /\ RaceInv' /\ MetInv' /\ ExitExplained'
  BY DEF RegTypes, SessionsInv, ProgressInv, RaceInv, MetInv, ExitExplained, Session, Orphaned,
         Dead, Rival, Visited
<1>2. ListedInv'
  BY DEF ListedInv, InLoop, Visited, Relied, ReliesOn, Session
<1> QED
  BY <1>1, <1>2

(* Every step preserves the invariant. *)
LEMMA RegStep == RegInv /\ [Next]_vars => RegInv'
<1> SUFFICES ASSUME RegInv, [Next]_vars PROVE RegInv'
  OBVIOUS
<1>1. ASSUME NEW p \in Providers, StartProvider(p) \/ InitFails(p) \/ Register(p) \/ Crash(p)
      PROVE  RegInv'
  BY <1>1, StartProviderStep, InitFailsStep, ConnectedStep, ExistsServiceStep, CreateServiceStep,
     ExistsMethodStep, CreateMethodStep, ServeStep DEF Register
<1>2. ASSUME NEW c \in Clients, ClientStart(c) \/ ClientExits(c) \/ GlobalWatcher(c) \/ Lookup(c)
      PROVE  UNCHANGED <<zkVars, provVars>>
  BY <1>2 DEF ClientStart, ClientExits, GlobalWatcher, Lookup, StartReturns, ExistsData, GetData
<1>3. ASSUME UNCHANGED vars
      PROVE  UNCHANGED <<zkVars, provVars>>
  BY <1>3 DEF vars
<1> QED
  BY <1>1, <1>2, <1>3, ExpireStep, LookupStep DEF Next
-----------------------------------------------------------------------------
(* RegInv holds in every reachable state. *)
THEOREM RegInvariant == SafeSpec => []RegInv
  BY RegInit, RegStep, PTL DEF SafeSpec

(* KrpcProvider::Run: each method of a provider that serves is listed      *)
(* under the session that was there when the provider asked, or its own,   *)
(* as long as that session lasts.                                          *)
THEOREM ServingListed == SafeSpec => []ServingIsListed
<1>1. RegInv => ServingIsListed
  BY DEF RegInv, RegTypes, SessionsInv, ProgressInv, ListedInv, InLoop, Visited, Relied,
         ServingIsListed
<1> QED
  BY <1>1, RegInvariant, PTL

(* ZkClient::Start and Create: a provider process calls exit only without  *)
(* a handle, because a rival created the node first, or because ZooKeeper  *)
(* could not be reached.                                                   *)
THEOREM ExitsExplained == SafeSpec => []ExitExplained
<1>1. RegInv => ExitExplained
  BY DEF RegInv
<1> QED
  BY <1>1, RegInvariant, PTL
-----------------------------------------------------------------------------
(***************************************************************************)
(* The configuration from which a provider and a client take the addresses *)
(* they register and look up: Krpcconfig::LoadConfigFile, as KrpcConfig    *)
(* models it, for any file whose lines fit any buffer.                     *)
(*                                                                         *)
(* The argument goes by positions in the file.  Trim and Strip both keep   *)
(* a stretch of a text (Core), so what is trimmed twice, or trimmed and    *)
(* cut at the '=', is a stretch of the line itself; fgets stops exactly    *)
(* where the next line starts (Taken); and after each piece the map holds  *)
(* what the lines before the position assign (LoadInv).                    *)
(***************************************************************************)

(* A set of numbers that is not empty has a smallest one. *)
LEMMA LeastNumber ==
    ASSUME NEW T \in SUBSET Nat, T # {}
    PROVE  \E x \in T : \A y \in T : x <= y
<1> DEFINE R == OpToRel(<, Nat)
<1>1. IsWellFoundedOn(R, Nat)
  BY NatLessThanWellFounded, Zenon
<1>2. \A x, y \in Nat : <<y, x>> \in R <=> y < x
  BY DEF OpToRel
<1> HIDE DEF R
<1>3. PICK x \in T : \A y \in T : ~ (<<y, x>> \in R)
  BY <1>1, WFMin
<1>4. ASSUME NEW y \in T PROVE x <= y
  <2>1. x \in Nat /\ y \in Nat /\ ~(y < x)
    BY <1>2, <1>3
  <2> QED
    BY <2>1
<1> QED
  BY <1>4

(* A bounded one has a greatest. *)
LEMMA GreatestNumber ==
    ASSUME NEW N \in Nat, NEW T \in SUBSET (0..N), T # {}
    PROVE  \E x \in T : \A y \in T : x >= y
<1> DEFINE R == {N - x : x \in T}
<1>1. R \in SUBSET Nat /\ R # {}
  <2>1. \A x \in T : x \in 0..N /\ N - x \in Nat
    OBVIOUS
  <2> QED
    BY <2>1
<1>2. PICK z \in R : \A y \in R : z <= y
  BY <1>1, LeastNumber
<1>3. PICK x \in T : z = N - x
  OBVIOUS
<1>4. ASSUME NEW y \in T PROVE x >= y
  <2>1. N - y \in R
    OBVIOUS
  <2>2. z <= N - y
    BY <1>2, <2>1
  <2>3. x \in 0..N /\ y \in 0..N
    OBVIOUS
  <2> QED
    BY <1>3, <2>2, <2>3
<1> QED
  BY <1>4

(* What Min and Max of FiniteSetsExt choose. *)
LEMMA MinIs ==
    ASSUME NEW S \in SUBSET Int, NEW x \in S, \A y \in S : x <= y
    PROVE  Min(S) = x
<1>1. \A y \in S : (\A z \in S : y <= z) => y = x
  OBVIOUS
<1> QED
  BY <1>1 DEF Min

LEMMA MaxIs ==
    ASSUME NEW S \in SUBSET Int, NEW x \in S, \A y \in S : x >= y
    PROVE  Max(S) = x
<1>1. \A y \in S : (\A z \in S : y >= z) => y = x
  OBVIOUS
<1> QED
  BY <1>1 DEF Max

(* A stretch of a text. *)
Stretch(s, a, b) == a \in 1..(Len(s) + 1) /\ b \in 0..Len(s) /\ a <= b + 1

(* Length and characters of a stretch. *)
LEMMA StretchParts ==
    ASSUME NEW V, NEW s \in Seq(V), NEW a, NEW b, Stretch(s, a, b)
    PROVE  /\ a \in Nat /\ b \in Nat /\ SubSeq(s, a, b) \in Seq(V)
           /\ Len(SubSeq(s, a, b)) = b - a + 1 /\ DOMAIN SubSeq(s, a, b) = 1..(b - a + 1)
           /\ \A n \in 1..(b - a + 1) : SubSeq(s, a, b)[n] = s[a + n - 1]
<1>1. a \in Int /\ b \in Int /\ a <= b + 1 /\ a \in Nat /\ b \in Nat
  BY DEF Stretch
<1>2. \A i \in a..b : s[i] \in V
  BY DEF Stretch
<1>3. /\ SubSeq(s, a, b) \in Seq(V)
      /\ Len(SubSeq(s, a, b)) = IF a <= b THEN b - a + 1 ELSE 0
      /\ \A i \in 1..(b - a + 1) : SubSeq(s, a, b)[i] = s[a + i - 1]
  BY <1>1, <1>2, SubSeqProperties
<1>4. Len(SubSeq(s, a, b)) = b - a + 1
  BY <1>1, <1>3
<1> QED
  BY <1>1, <1>3, <1>4

(* SubSeq under another name, which the provers take as it is. *)
Piece(s, a, b) == SubSeq(s, a, b)

Cut(V, s, a, b) == /\ Piece(s, a, b) \in Seq(V) /\ Len(Piece(s, a, b)) = b - a + 1
                   /\ \A n \in 1..(b - a + 1) : Piece(s, a, b)[n] = s[a + n - 1]

LEMMA StretchCut ==
    ASSUME NEW V, NEW s \in Seq(V), NEW a, NEW b, Stretch(s, a, b)
    PROVE  Cut(V, s, a, b)
  BY StretchParts DEF Cut, Piece

(* Texts with the same characters are the same. *)
LEMMA SameText ==
    ASSUME NEW V, NEW s \in Seq(V), NEW t \in Seq(V), Len(s) = Len(t),
           \A n \in 1..Len(s) : s[n] = t[n]
    PROVE  s = t
  OBVIOUS

(* A stretch of a stretch is a stretch of the whole text. *)
LEMMA StretchOfStretch ==
    ASSUME NEW V, NEW s \in Seq(V), NEW t \in Seq(V), NEW a \in Int, NEW b \in Int,
           NEW m \in Int, NEW n \in Int, NEW c \in Int, NEW d \in Int,
           Stretch(s, a, b), t = Piece(s, a, b), Stretch(t, m, n), c = a + m - 1, d = a + n - 1
    PROVE  Stretch(s, c, d) /\ Piece(t, m, n) = Piece(s, c, d)
<1>1. /\ a \in Nat /\ b \in Nat /\ t \in Seq(V) /\ Len(t) = b - a + 1
      /\ \A k \in 1..(b - a + 1) : t[k] = s[a + k - 1]
  <2>1. Cut(V, s, a, b)
    BY StretchCut
  <2>2. a \in Nat /\ b \in Nat
    BY DEF Stretch
  <2> QED
    BY <2>1, <2>2 DEF Cut
<1>2. m \in 1..(b - a + 2) /\ n \in 0..(b - a + 1) /\ m <= n + 1
  BY <1>1 DEF Stretch
<1>3. Stretch(s, c, d)
  BY <1>1, <1>2 DEF Stretch
<1>4. /\ Piece(t, m, n) \in Seq(V) /\ Len(Piece(t, m, n)) = n - m + 1
      /\ \A k \in 1..(n - m + 1) : Piece(t, m, n)[k] = t[m + k - 1]
  <2>1. t \in Seq(V)
    BY <1>1
  <2>2. Cut(V, t, m, n)
    BY <2>1, StretchCut
  <2> QED
    BY <2>2 DEF Cut
<1> DEFINE u == Piece(s, c, d)
<1>5. /\ u \in Seq(V) /\ Len(u) = d - c + 1 /\ \A k \in 1..(d - c + 1) : u[k] = s[c + k - 1]
  <2>1. Cut(V, s, c, d)
    BY <1>3, StretchCut
  <2> QED
    BY <2>1 DEF Cut
<1> HIDE DEF u
<1>6. d - c + 1 = n - m + 1
  BY <1>1, <1>2
<1>7. ASSUME NEW k \in 1..(n - m + 1) PROVE Piece(t, m, n)[k] = u[k]
  <2>1. PICK j \in 1..(b - a + 1) : j = m + k - 1
    BY <1>1, <1>2
  <2>2. t[j] = s[a + j - 1]
    BY <1>1
  <2>3. a + j - 1 = c + k - 1
    BY <1>1, <1>2, <2>1
  <2> QED
    BY <1>4, <1>5, <1>6, <2>1, <2>2, <2>3
<1>8. Piece(t, m, n) = u
  BY <1>4, <1>5, <1>6, <1>7, SameText
<1> QED
  BY <1>3, <1>8 DEF u

LEMMA PieceOfPiece ==
    ASSUME NEW V, NEW s \in Seq(V), NEW a, NEW b, Stretch(s, a, b),
           NEW m, NEW n, Stretch(Piece(s, a, b), m, n)
    PROVE  \A c, d : c = a + m - 1 /\ d = a + n - 1 =>
               Stretch(s, c, d) /\ Piece(Piece(s, a, b), m, n) = Piece(s, c, d)
<1>1. PICK t : t = Piece(s, a, b)
  OBVIOUS
<1>2. t \in Seq(V) /\ a \in Int /\ b \in Int
  <2>1. Cut(V, s, a, b)
    BY StretchCut
  <2> QED
    BY <1>1, <2>1 DEF Cut, Stretch
<1>3. Stretch(t, m, n)
  BY <1>1
<1>4. m \in Int /\ n \in Int
  BY <1>2, <1>3 DEF Stretch
<1>5. ASSUME NEW c, NEW d, c = a + m - 1, d = a + n - 1
      PROVE  Stretch(s, c, d) /\ Piece(t, m, n) = Piece(s, c, d)
  <2>1. c \in Int /\ d \in Int
    BY <1>2, <1>4, <1>5
  <2> QED
    BY <1>1, <1>2, <1>3, <1>4, <1>5, <2>1, StretchOfStretch
<1> QED
  BY <1>1, <1>5

(* What Strip keeps of a text t: the stretch from i to j. *)
Core(t, i, j) == /\ Stretch(t, i, j)
                 /\ \A n \in 1..Len(t) : n < i \/ n > j => t[n] = Blank
                 /\ i <= j => t[i] # Blank /\ t[j] # Blank

(* Every text has such a stretch. *)
LEMMA CoreExists ==
    ASSUME NEW V, NEW t \in Seq(V)
    PROVE  \E i, j : Core(t, i, j)
<1> DEFINE marks == {n \in 1..Len(t) : t[n] # Blank}
           N == Len(t)
<1>1. N \in Nat
  OBVIOUS
<1> HIDE DEF N
<1>2. CASE marks = {}
  <2>1. Core(t, 1, 0)
    BY <1>1, <1>2 DEF Core, Stretch, N
  <2> QED
    BY <2>1
<1>3. CASE marks # {}
  <2>1. marks \in SUBSET Nat /\ marks \in SUBSET (0..N)
    BY <1>1 DEF N
  <2>2. PICK i \in marks : \A y \in marks : i <= y
    BY <1>3, <2>1, LeastNumber
  <2>3. PICK j \in marks : \A y \in marks : j >= y
    BY <1>1, <1>3, <2>1, GreatestNumber
  <2>4. i \in 1..N /\ j \in 1..N /\ i <= j /\ t[i] # Blank /\ t[j] # Blank
    BY <2>2 DEF N
  <2>5. ASSUME NEW n \in 1..N, n < i \/ n > j PROVE t[n] = Blank
    <3>1. n \notin marks
      BY <1>1, <2>2, <2>3, <2>4, <2>5
    <3> QED
      BY <3>1 DEF N
  <2>6. Core(t, i, j)
    BY <1>1, <2>4, <2>5 DEF Core, Stretch, N
  <2> QED
    BY <2>6
<1> QED
  BY <1>2, <1>3

(* The texts among which Strip chooses. *)
Stripped(t, r) ==
    /\ \E i \in 1..(Len(t) + 1), j \in 0..Len(t) :
          r = SubSeq(t, i, j) /\ \A n \in DOMAIN t : n < i \/ n > j => t[n] = Blank
    /\ r # <<>> => r[1] # Blank /\ r[Len(r)] # Blank

(* It is what Strip chooses, and there is no other choice. *)
LEMMA StripsTo ==
    ASSUME NEW V, NEW t \in Seq(V), NEW i, NEW j, Core(t, i, j)
    PROVE  Strip(t) = SubSeq(t, i, j)
<1> DEFINE N == Len(t)
           r0 == SubSeq(t, i, j)
<1>1. /\ N \in Nat /\ DOMAIN t = 1..N /\ i \in 1..(N + 1) /\ j \in 0..N /\ i <= j + 1
      /\ \A n \in 1..N : n < i \/ n > j => t[n] = Blank
      /\ i <= j => t[i] # Blank /\ t[j] # Blank
  BY DEF Core, Stretch
<1>2. Stripped(t, r0)
  <2>1. /\ r0 \in Seq(V) /\ Len(r0) = j - i + 1
        /\ \A n \in 1..(j - i + 1) : r0[n] = t[i + n - 1]
    BY StretchParts DEF Core
  <2> HIDE DEF r0
  <2>2. ASSUME r0 # <<>> PROVE r0[1] # Blank /\ r0[Len(r0)] # Blank
    <3>1. Len(r0) # 0
      BY <2>1, <2>2
    <3>2. i <= j
      BY <1>1, <2>1, <3>1
    <3>3. PICK n \in 1..(j - i + 1) : n = j - i + 1
      BY <1>1, <3>2
    <3>4. PICK k \in 1..(j - i + 1) : k = 1
      BY <1>1, <3>2
    <3>5. r0[n] = t[j] /\ r0[k] = t[i] /\ Len(r0) = n
      <4>1. r0[n] = t[i + n - 1] /\ r0[k] = t[i + k - 1]
        BY <2>1
      <4>2. i + n - 1 = j /\ i + k - 1 = i /\ Len(r0) = n
        BY <1>1, <2>1, <3>3, <3>4
      <4> QED
        BY <4>1, <4>2
    <3>6. t[j] # Blank /\ t[i] # Blank
      BY <1>1, <3>2
    <3> QED
      BY <3>4, <3>5, <3>6
  <2>3. r0 = SubSeq(t, i, j)
    BY DEF r0
  <2> QED
    BY <1>1, <2>2, <2>3 DEF Stripped
<1>3. ASSUME NEW r, Stripped(t, r) PROVE r = r0
  <2>1. PICK a \in 1..(N + 1), b \in 0..N :
            r = SubSeq(t, a, b) /\ \A n \in 1..N : n < a \/ n > b => t[n] = Blank
    BY <1>1, <1>3 DEF Stripped
  <2>2. CASE a > b
    <3>1. \A n \in 1..N : t[n] = Blank
      BY <1>1, <2>1, <2>2
    <3>2. ~(i <= j)
      BY <1>1, <3>1
    <3>3. SubSeq(t, a, b) = <<>> /\ r0 = <<>>
      BY <1>1, <2>2, <3>2, SubSeqEmpty
    <3> QED
      BY <2>1, <3>3
  <2>3. CASE a <= b
    <3>1. Stretch(t, a, b)
      BY <1>1, <2>1, <2>3 DEF Stretch
    <3>2. /\ Len(r) = b - a + 1 /\ r \in Seq(V)
          /\ \A n \in 1..(b - a + 1) : r[n] = t[a + n - 1]
      BY <2>1, <3>1, StretchParts
    <3>3. r # <<>> /\ 1 \in 1..(b - a + 1) /\ b - a + 1 \in 1..(b - a + 1)
      BY <1>1, <2>1, <2>3, <3>2
    <3>4. r[1] # Blank /\ r[Len(r)] # Blank
      BY <1>3, <3>3 DEF Stripped
    <3>5. PICK n \in 1..(b - a + 1) : n = b - a + 1
      BY <3>3
    <3>6. r[n] = t[b] /\ r[1] = t[a]
      BY <2>1, <3>2, <3>3, <3>5
    <3>7. t[a] # Blank /\ t[b] # Blank /\ a \in 1..N /\ b \in 1..N
      BY <1>1, <2>1, <2>3, <3>2, <3>4, <3>5, <3>6
    <3>8. i <= a /\ a <= j /\ i <= b /\ b <= j
      BY <1>1, <3>7
    <3>9. t[i] # Blank /\ t[j] # Blank /\ i \in 1..N /\ j \in 1..N
      BY <1>1, <3>7, <3>8
    <3>10. a <= i /\ j <= b
      BY <2>1, <3>9
    <3>11. a = i /\ b = j
      BY <1>1, <3>8, <3>10
    <3> QED
      BY <2>1, <3>11
  <2> QED
    BY <1>1, <2>1, <2>2, <2>3
<1>4. r0 \in {SubSeq(t, a, b) : a \in 1..(N + 1), b \in 0..N}
  BY <1>1
<1> HIDE DEF r0
<1> DEFINE S == {SubSeq(t, a, b) : a \in 1..(Len(t) + 1), b \in 0..Len(t)}
<1>5. Strip(t) = CHOOSE r \in S : Stripped(t, r)
  BY DEF Strip, Stripped
<1>6. r0 \in S
  BY <1>4
<1> HIDE DEF S
<1>7. Stripped(t, CHOOSE r \in S : Stripped(t, r))
  BY <1>2, <1>6
<1>8. Strip(t) = r0
  BY <1>3, <1>5, <1>7
<1> QED
  BY <1>8 DEF r0

(* Trim keeps it too, but leaves a text of blanks as it is. *)
LEMMA TrimsTo ==
    ASSUME NEW V, NEW t \in Seq(V), NEW i, NEW j, Core(t, i, j)
    PROVE  Trim(t) = IF i <= j THEN SubSeq(t, i, j) ELSE t
<1> DEFINE N == Len(t)
           marks == {n \in DOMAIN t : t[n] # Blank}
<1>1. /\ N \in Nat /\ DOMAIN t = 1..N /\ i \in 1..(N + 1) /\ j \in 0..N /\ i <= j + 1
      /\ \A n \in 1..N : n < i \/ n > j => t[n] = Blank
      /\ i <= j => t[i] # Blank /\ t[j] # Blank
  BY DEF Core, Stretch
<1>2. Trim(t) = IF marks = {} THEN t ELSE SubSeq(t, Min(marks), Max(marks))
  BY DEF Trim, Where
<1>3. CASE i <= j
  <2>1. i \in marks /\ j \in marks /\ marks \in SUBSET Int
    BY <1>1, <1>3
  <2>2. \A y \in marks : i <= y /\ j >= y
    BY <1>1
  <2> HIDE DEF marks
  <2>3. Min(marks) = i
    BY <2>1, <2>2, MinIs
  <2>4. Max(marks) = j
    BY <2>1, <2>2, MaxIs
  <2> QED
    BY <1>2, <1>3, <2>1, <2>3, <2>4
<1>4. CASE ~(i <= j)
  <2>1. marks = {}
    BY <1>1, <1>4
  <2> QED
    BY <1>2, <1>4, <2>1
<1> QED
  BY <1>3, <1>4

(* The same for a stretch of a text s, with the place of the core in s. *)
CoreOf(s, a, b, i, j) == /\ Stretch(s, a, b)
                         /\ i \in a..(b + 1) /\ j \in (a - 1)..b /\ i <= j + 1
                         /\ \A n \in a..b : n < i \/ n > j => s[n] = Blank
                         /\ i <= j => s[i] # Blank /\ s[j] # Blank

(* Positions in a stretch and in the text it is of. *)
LEMMA CoreMoves ==
    ASSUME NEW V, NEW s \in Seq(V), NEW a, NEW b, Stretch(s, a, b),
           NEW i \in Int, NEW j \in Int
    PROVE  Core(SubSeq(s, a, b), i, j) <=> CoreOf(s, a, b, a + i - 1, a + j - 1)
<1> DEFINE t == SubSeq(s, a, b)
           c == a + i - 1
           d == a + j - 1
<1>1. /\ a \in Nat /\ b \in Nat /\ a <= b + 1 /\ Len(t) = b - a + 1
      /\ \A n \in 1..(b - a + 1) : t[n] = s[a + n - 1]
  BY StretchParts DEF Stretch
<1> HIDE DEF t
<1>2. c \in Int /\ d \in Int /\ (i <= j <=> c <= d)
  BY <1>1
<1>3. Stretch(t, i, j) <=> c \in a..(b + 1) /\ d \in (a - 1)..b /\ c <= d + 1
  BY <1>1 DEF Stretch
<1>4. (\A n \in 1..Len(t) : n < i \/ n > j => t[n] = Blank)
          <=> (\A n \in a..b : n < c \/ n > d => s[n] = Blank)
  <2>1. ASSUME \A n \in 1..Len(t) : n < i \/ n > j => t[n] = Blank, NEW n \in a..b, n < c \/ n > d
        PROVE  s[n] = Blank
    <3>1. PICK k \in 1..(b - a + 1) : k = n - a + 1
      BY <1>1
    <3>2. (k < i \/ k > j) /\ k \in 1..Len(t)
      BY <1>1, <2>1, <3>1
    <3>3. t[k] = s[a + k - 1] /\ a + k - 1 = n
      BY <1>1, <3>1
    <3> QED
      BY <2>1, <3>2, <3>3
  <2>2. ASSUME \A n \in a..b : n < c \/ n > d => s[n] = Blank, NEW k \in 1..Len(t), k < i \/ k > j
        PROVE  t[k] = Blank
    <3>0. k \in 1..(b - a + 1)
      BY <1>1, <2>2
    <3>1. PICK n \in a..b : n = a + k - 1
      <4>1. a + k - 1 \in a..b
        BY <1>1, <3>0
      <4> QED
        BY <4>1
    <3>2. n < c \/ n > d
      BY <1>1, <2>2, <3>1
    <3>3. t[k] = s[a + k - 1]
      BY <1>1, <3>0
    <3> QED
      BY <2>2, <3>1, <3>2, <3>3
  <2> QED
    BY <2>1, <2>2
<1>5. ASSUME Stretch(t, i, j), i <= j PROVE t[i] = s[c] /\ t[j] = s[d]
  <2>1. i \in 1..(b - a + 1) /\ j \in 1..(b - a + 1)
    BY <1>1, <1>5 DEF Stretch
  <2> QED
    BY <1>1, <2>1
<1> HIDE DEF c, d
<1>6. Core(t, i, j) <=> CoreOf(s, a, b, c, d)
  BY <1>2, <1>3, <1>4, <1>5 DEF Core, CoreOf
<1> QED
  BY <1>6 DEF t, c, d

LEMMA CoreOfExists ==
    ASSUME NEW V, NEW s \in Seq(V), NEW a, NEW b, Stretch(s, a, b)
    PROVE  \E i, j \in Int : CoreOf(s, a, b, i, j)
<1>1. SubSeq(s, a, b) \in Seq(V) /\ a \in Nat
  BY StretchParts
<1>2. PICK i, j : Core(SubSeq(s, a, b), i, j)
  BY <1>1, CoreExists
<1>3. i \in Int /\ j \in Int
  BY <1>2 DEF Core, Stretch
<1>4. CoreOf(s, a, b, a + i - 1, a + j - 1)
  BY <1>2, <1>3, CoreMoves
<1>5. a + i - 1 \in Int /\ a + j - 1 \in Int
  BY <1>1, <1>3
<1> QED
  BY <1>4, <1>5

(* Strip and Trim of a stretch, by positions in the text. *)
LEMMA CoreCut ==
    ASSUME NEW V, NEW s \in Seq(V), NEW a, NEW b, NEW i \in Int, NEW j \in Int,
           CoreOf(s, a, b, i, j)
    PROVE  /\ Strip(Piece(s, a, b)) = Piece(s, i, j)
           /\ Trim(Piece(s, a, b)) = IF i <= j THEN Piece(s, i, j) ELSE Piece(s, a, b)
<1>1. Stretch(s, a, b)
  BY DEF CoreOf
<1>2. SubSeq(s, a, b) \in Seq(V) /\ a \in Nat
  BY <1>1, StretchParts
<1>3. PICK k, l \in Int : k = i - a + 1 /\ l = j - a + 1
  BY <1>2
<1>4. a + k - 1 = i /\ a + l - 1 = j /\ (k <= l <=> i <= j)
  BY <1>2, <1>3
<1>5. Core(SubSeq(s, a, b), k, l)
  <2>1. CoreOf(s, a, b, a + k - 1, a + l - 1)
    BY <1>4
  <2> QED
    BY <1>1, <2>1, CoreMoves
<1>6. SubSeq(SubSeq(s, a, b), k, l) = SubSeq(s, i, j)
  <2>1. Stretch(Piece(s, a, b), k, l)
    BY <1>5 DEF Core, Piece
  <2>2. Piece(Piece(s, a, b), k, l) = Piece(s, i, j)
    BY <1>1, <1>4, <2>1, PieceOfPiece
  <2> QED
    BY <2>2 DEF Piece
<1>7. Strip(SubSeq(s, a, b)) = SubSeq(SubSeq(s, a, b), k, l)
  BY <1>2, <1>5, StripsTo
<1>8. Trim(SubSeq(s, a, b)) = IF k <= l THEN SubSeq(SubSeq(s, a, b), k, l) ELSE SubSeq(s, a, b)
  BY <1>2, <1>5, TrimsTo
<1> QED
  BY <1>4, <1>6, <1>7, <1>8 DEF Piece

LEMMA NoPiece ==
    ASSUME NEW s, NEW a \in Int, NEW b \in Int, b < a
    PROVE  Piece(s, a, b) = <<>>
  BY SubSeqEmpty DEF Piece

(* Blanks around a stretch make no difference to Strip. *)
Widened(s, a, b, c, d) == /\ Stretch(s, a, b) /\ Stretch(s, c, d) /\ c <= a /\ b <= d
                          /\ \A n \in c..d : n < a \/ n > b => s[n] = Blank

LEMMA StripWider ==
    ASSUME NEW V, NEW s \in Seq(V), NEW a, NEW b, NEW c, NEW d, Widened(s, a, b, c, d)
    PROVE  Strip(Piece(s, c, d)) = Strip(Piece(s, a, b))
<1>0. /\ Stretch(s, a, b) /\ Stretch(s, c, d) /\ c <= a /\ b <= d
      /\ \A n \in c..d : n < a \/ n > b => s[n] = Blank
  BY DEF Widened
<1>1. PICK i, j \in Int : CoreOf(s, a, b, i, j)
  BY <1>0, CoreOfExists
<1>2. Strip(Piece(s, a, b)) = Piece(s, i, j)
  BY <1>1, CoreCut
<1>3. a \in Nat /\ b \in Nat /\ c \in Nat /\ d \in Nat /\ a <= b + 1 /\ c <= d + 1
  BY <1>0 DEF Stretch
<1>4. CASE i <= j
  <2>1. CoreOf(s, c, d, i, j)
    BY <1>0, <1>1, <1>3, <1>4 DEF CoreOf
  <2>2. Strip(Piece(s, c, d)) = Piece(s, i, j)
    BY <1>1, <2>1, CoreCut
  <2> QED
    BY <1>2, <2>2
<1>5. CASE ~(i <= j)
  <2>1. \A n \in c..d : s[n] = Blank
    BY <1>0, <1>1, <1>3, <1>5 DEF CoreOf
  <2>2. PICK k \in Int : k = c - 1
    BY <1>3
  <2>3. CoreOf(s, c, d, c, k)
    BY <1>0, <1>3, <2>1, <2>2 DEF CoreOf
  <2>4. Strip(Piece(s, c, d)) = Piece(s, c, k)
    BY <1>3, <2>2, <2>3, CoreCut
  <2>5. Piece(s, c, k) = <<>> /\ Piece(s, i, j) = <<>>
    BY <1>1, <1>3, <1>5, <2>2, NoPiece
  <2> QED
    BY <1>2, <2>4, <2>5
<1> QED
  BY <1>4, <1>5

(* Trim leaves a text of blanks as it is; Strip does not see that. *)
LEMMA StripTrim ==
    ASSUME NEW V, NEW s \in Seq(V), NEW a, NEW b, Stretch(s, a, b)
    PROVE  Strip(Trim(Piece(s, a, b))) = Strip(Piece(s, a, b))
<1>1. PICK i, j \in Int : CoreOf(s, a, b, i, j)
  BY CoreOfExists
<1>2. Trim(Piece(s, a, b)) = IF i <= j THEN Piece(s, i, j) ELSE Piece(s, a, b)
  BY <1>1, CoreCut
<1>3. CASE i <= j
  <2>1. Stretch(s, i, j)
    BY <1>1, <1>3 DEF CoreOf, Stretch
  <2>2. a <= i /\ j <= b /\ \A n \in a..b : n < i \/ n > j => s[n] = Blank
    BY <1>1 DEF CoreOf, Stretch
  <2>4. Widened(s, i, j, a, b)
    BY <2>1, <2>2 DEF Widened
  <2>3. Strip(Piece(s, a, b)) = Strip(Piece(s, i, j))
    BY <2>4, StripWider
  <2> QED
    BY <1>2, <1>3, <2>3
<1> QED
  BY <1>2, <1>3

(* A text that does not begin with a blank is trimmed as it is stripped. *)
LEMMA TrimIsStrip ==
    ASSUME NEW V, NEW s \in Seq(V), NEW a, NEW b, Stretch(s, a, b), a <= b => s[a] # Blank
    PROVE  Trim(Piece(s, a, b)) = Strip(Piece(s, a, b))
<1>1. PICK i, j \in Int : CoreOf(s, a, b, i, j)
  BY CoreOfExists
<1>2. /\ Trim(Piece(s, a, b)) = IF i <= j THEN Piece(s, i, j) ELSE Piece(s, a, b)
      /\ Strip(Piece(s, a, b)) = Piece(s, i, j)
  BY <1>1, CoreCut
<1>3. CASE ~(i <= j)
  <2>1. a \in Nat /\ b \in Nat /\ ~(a <= b)
    BY <1>1, <1>3 DEF CoreOf, Stretch
  <2>2. Piece(s, a, b) = <<>> /\ Piece(s, i, j) = <<>>
    BY <1>3, <2>1, NoPiece
  <2> QED
    BY <1>2, <1>3, <2>2
<1> QED
  BY <1>2, <1>3

(* Split finds the first '=' of what is no comment. *)
LEMMA SplitAt ==
    ASSUME NEW V, NEW t \in Seq(V), NEW k \in 1..Len(t), t[k] = Equals, t[1] # Hash,
           \A n \in 1..Len(t) : n < k => t[n] # Equals
    PROVE  Split(t) = k
<1> DEFINE eqs == {n \in DOMAIN t : t[n] = Equals}
<1>1. DOMAIN t = 1..Len(t) /\ Len(t) \in Nat
  OBVIOUS
<1>2. k \in eqs /\ eqs \in SUBSET Int /\ \A y \in eqs : k <= y
  BY <1>1
<1>3. Split(t) = IF eqs = {} \/ t[1] = Hash THEN 0 ELSE Min(eqs)
  BY DEF Split, Where
<1> HIDE DEF eqs
<1>4. Min(eqs) = k
  BY <1>2, MinIs
<1> QED
  BY <1>2, <1>3, <1>4

LEMMA SplitNowhere ==
    ASSUME NEW V, NEW t \in Seq(V), t[1] = Hash \/ \A n \in 1..Len(t) : t[n] # Equals
    PROVE  Split(t) = 0
<1> DEFINE eqs == {n \in DOMAIN t : t[n] = Equals}
<1>1. DOMAIN t = 1..Len(t)
  OBVIOUS
<1>2. Split(t) = IF eqs = {} \/ t[1] = Hash THEN 0 ELSE Min(eqs)
  BY DEF Split, Where
<1>3. t[1] = Hash \/ eqs = {}
  BY <1>1
<1> QED
  BY <1>2, <1>3

(* So does FirstEquals. *)
LEMMA FirstEqualsAt ==
    ASSUME NEW V, NEW t \in Seq(V), NEW q \in 1..Len(t), t[q] = Equals,
           \A n \in 1..Len(t) : n < q => t[n] # Equals
    PROVE  FirstEquals(t) = q
<1>1. DOMAIN t = 1..Len(t) /\ Len(t) \in Nat
  OBVIOUS
<1> DEFINE First(e) == t[e] = Equals /\ \A n \in 1..(e - 1) : t[n] # Equals
<1>2. First(q)
  BY <1>1
<1>3. ASSUME NEW e \in DOMAIN t, First(e) PROVE e = q
  <2>1. e \in 1..Len(t) /\ ~(e < q)
    BY <1>1, <1>3
  <2>2. ~(q < e)
    BY <1>1, <1>3, <2>1
  <2> QED
    BY <2>1, <2>2
<1>4. FirstEquals(t) = CHOOSE e \in DOMAIN t : First(e)
  BY DEF FirstEquals
<1> HIDE DEF First
<1>5. q \in DOMAIN t
  BY <1>1
<1> QED
  BY <1>2, <1>3, <1>4, <1>5

LEMMA WholeText ==
    ASSUME NEW V, NEW s \in Seq(V)
    PROVE  Stretch(s, 1, Len(s)) /\ Piece(s, 1, Len(s)) = s
  BY SubSeqFull DEF Stretch, Piece

(* What fgets read is p, and the first l characters of it are the line:    *)
(* without the newline, which a last line may not have.                    *)
LineIn(p, l) == /\ l \in 0..Len(p)
                /\ l = Len(p) \/ (l + 1 = Len(p) /\ p[Len(p)] = Newline)
                /\ \A n \in 1..l : p[n] # Newline

(* The characters that the code tells apart are different. *)
LEMMA Distinct == /\ Blank # Equals /\ Blank # Hash /\ Blank # Newline /\ Equals # Hash
                  /\ Equals # Newline /\ Hash # Newline
  BY DEF Blank, Equals, Hash, Newline

(* The line itself. *)
LEMMA LineText ==
    ASSUME NEW V, NEW p \in Seq(V), NEW l, LineIn(p, l)
    PROVE  /\ l \in Nat /\ Len(p) \in Nat /\ Stretch(p, 1, l) /\ Piece(p, 1, l) \in Seq(V)
           /\ Len(Piece(p, 1, l)) = l /\ DOMAIN Piece(p, 1, l) = 1..l
           /\ \A n \in 1..l : Piece(p, 1, l)[n] = p[n]
<1>1. Len(p) \in Nat
  OBVIOUS
<1>2. l \in Nat /\ Stretch(p, 1, l)
  BY <1>1 DEF LineIn, Stretch
<1>3. PICK a \in Nat : a = 1
  OBVIOUS
<1>4. Stretch(p, a, l)
  BY <1>2, <1>3
<1>5. Cut(V, p, a, l)
  BY <1>4, StretchCut
<1>6. Piece(p, a, l) \in Seq(V) /\ Len(Piece(p, a, l)) = l - a + 1
      /\ \A n \in 1..(l - a + 1) : Piece(p, a, l)[n] = p[a + n - 1]
  BY <1>5 DEF Cut
<1>7. \A n \in 1..l : Piece(p, a, l)[n] = p[n]
  BY <1>2, <1>3, <1>6
<1>8. Len(Piece(p, a, l)) = l
  BY <1>2, <1>3, <1>6
<1>9. DOMAIN Piece(p, a, l) = 1..l
  BY <1>6, <1>8
<1> QED
  BY <1>1, <1>2, <1>3, <1>6, <1>7, <1>8, <1>9

(* What Trim makes of p: t, the stretch of it from i to j. *)
TrimmedTo(V, p, t, i, j) ==
    /\ i \in 1..Len(p) /\ j \in 1..Len(p) /\ i <= j /\ p[i] # Blank /\ p[j] # Blank
    /\ \A n \in 1..Len(p) : n < i \/ n > j => p[n] = Blank
    /\ t = Piece(p, i, j) /\ Stretch(p, i, j) /\ t \in Seq(V) /\ Len(t) = j - i + 1
    /\ \A n \in 1..(j - i + 1) : t[n] = p[i + n - 1]

LEMMA Trimmed ==
    ASSUME NEW V, NEW p \in Seq(V)
    PROVE  \/ Trim(p) = p /\ \A n \in 1..Len(p) : p[n] = Blank
           \/ \E i, j \in Nat : TrimmedTo(V, p, Trim(p), i, j)
<1>1. PICK a, N \in Nat : a = 1 /\ N = Len(p)
  OBVIOUS
<1>2. Stretch(p, a, N) /\ Piece(p, a, N) = p
  BY <1>1, WholeText
<1>3. PICK i, j \in Int : CoreOf(p, a, N, i, j)
  BY <1>2, CoreOfExists
<1>4. Trim(p) = IF i <= j THEN Piece(p, i, j) ELSE p
  BY <1>2, <1>3, CoreCut
<1>5. CASE i <= j
  <2>1. i \in 1..N /\ j \in 1..N /\ p[i] # Blank /\ p[j] # Blank
    BY <1>1, <1>3, <1>5 DEF CoreOf
  <2>2. \A n \in 1..N : n < i \/ n > j => p[n] = Blank
    BY <1>1, <1>3 DEF CoreOf
  <2>3. Stretch(p, i, j)
    BY <1>1, <1>5, <2>1 DEF Stretch
  <2>4. Cut(V, p, i, j)
    BY <2>3, StretchCut
  <2>5. /\ Trim(p) \in Seq(V) /\ Len(Trim(p)) = j - i + 1
        /\ \A n \in 1..(j - i + 1) : Trim(p)[n] = p[i + n - 1]
    BY <1>4, <1>5, <2>4 DEF Cut
  <2>6. TrimmedTo(V, p, Trim(p), i, j)
    BY <1>1, <1>4, <1>5, <2>1, <2>2, <2>3, <2>5 DEF TrimmedTo
  <2> QED
    BY <2>1, <2>6
<1>6. CASE ~(i <= j)
  <2>1. \A n \in 1..N : p[n] = Blank
    BY <1>1, <1>3, <1>6 DEF CoreOf
  <2> QED
    BY <1>1, <1>4, <1>6, <2>1
<1> QED
  BY <1>5, <1>6

(* A comment, and a line without an '=', enters nothing. *)
LEMMA LineWithout ==
    ASSUME NEW V, NEW p \in Seq(V), NEW l, LineIn(p, l),
           IsComment(Piece(p, 1, l)) \/ ~\E e \in DOMAIN Piece(p, 1, l) : Piece(p, 1, l)[e] = Equals
    PROVE  Split(Trim(p)) = 0
<1> DEFINE N == Len(p)
<1>1. /\ l \in Nat /\ N \in Nat /\ DOMAIN Piece(p, 1, l) = 1..l
      /\ \A n \in 1..l : Piece(p, 1, l)[n] = p[n]
  BY LineText
<1>2. /\ l = N \/ (l + 1 = N /\ p[N] = Newline)
      /\ \A n \in 1..l : p[n] # Newline
  BY DEF LineIn
<1> HIDE DEF N
<1>3. CASE Trim(p) = p /\ \A n \in 1..N : p[n] = Blank
  <2>1. \A n \in 1..Len(p) : p[n] # Equals
    BY <1>3, Distinct DEF N
  <2>2. Split(p) = 0
    BY <2>1, SplitNowhere
  <2> QED
    BY <1>3, <2>2
<1>4. ASSUME NEW t, NEW i \in Nat, NEW j \in Nat, TrimmedTo(V, p, t, i, j)
      PROVE  Split(t) = 0
  <2>0. /\ i \in 1..N /\ j \in 1..N /\ i <= j /\ p[i] # Blank /\ p[j] # Blank
        /\ \A n \in 1..N : n < i \/ n > j => p[n] = Blank
        /\ t \in Seq(V) /\ Len(t) = j - i + 1
        /\ \A n \in 1..(j - i + 1) : t[n] = p[i + n - 1]
    BY <1>4 DEF TrimmedTo, N
  <2>1. CASE IsComment(Piece(p, 1, l))
    <3>1. PICK h \in 1..l : p[h] = Hash /\ \A n \in 1..(h - 1) : p[n] = Blank
      <4>1. PICK h \in DOMAIN Piece(p, 1, l) :
                Piece(p, 1, l)[h] = Hash /\ \A n \in 1..(h - 1) : Piece(p, 1, l)[n] = Blank
        BY <2>1 DEF IsComment
      <4>2. h \in 1..l /\ p[h] = Hash
        BY <1>1, <4>1
      <4>3. ASSUME NEW n \in 1..(h - 1) PROVE p[n] = Blank
        <5>1. n \in 1..l
          BY <1>1, <4>2
        <5> QED
          BY <1>1, <4>1, <5>1
      <4> QED
        BY <4>2, <4>3
    <3>2. h \in 1..N
      BY <1>1, <1>2
    <3>3. ~(h < i) /\ ~(h > j)
      BY <2>0, <3>1, <3>2, Distinct
    <3>4. ~(i < h)
      BY <1>1, <2>0, <3>1
    <3>5. h = i
      BY <1>1, <3>2, <3>3, <3>4
    <3>6. PICK k \in 1..(j - i + 1) : k = 1
      BY <1>1, <2>0
    <3>7. t[1] = Hash
      BY <1>1, <2>0, <3>1, <3>5, <3>6
    <3> QED
      BY <2>0, <3>7, SplitNowhere
  <2>2. CASE ~\E e \in DOMAIN Piece(p, 1, l) : Piece(p, 1, l)[e] = Equals
    <3>1. \A n \in 1..l : p[n] # Equals
      BY <1>1, <2>2
    <3>2. \A n \in 1..N : p[n] # Equals
      BY <1>1, <1>2, <3>1, Distinct
    <3>3. ASSUME NEW n \in 1..Len(t) PROVE t[n] # Equals
      <4>1. PICK k \in 1..N : k = i + n - 1
        <5>1. i + n - 1 \in 1..N
          BY <1>1, <2>0
        <5> QED
          BY <5>1
      <4> QED
        BY <2>0, <3>2, <4>1
    <3> QED
      BY <2>0, <3>3, SplitNowhere
  <2> QED
    BY <2>1, <2>2
<1> QED
  BY <1>3, <1>4, Trimmed DEF N

(* The key: what is before the '=' at q, without blanks around it. *)
LEMMA KeyEntered ==
    ASSUME NEW V, NEW p \in Seq(V), NEW t \in Seq(V), NEW i \in Nat, NEW j \in Nat, NEW q \in Nat,
           i <= q, q <= j, j <= Len(p), 1 <= i, t = Piece(p, i, j), Stretch(p, i, j),
           p[i] # Blank, \A n \in 1..Len(p) : n < i => p[n] = Blank, Split(t) = q - i + 1
    PROVE  Key(t) = Strip(Piece(p, 1, q - 1))
<1>1. PICK a, d, m \in Int : a = 1 /\ d = q - 1 /\ m = q - i
  OBVIOUS
<1>2. Len(t) = j - i + 1 /\ Len(p) \in Nat
  <2>1. Cut(V, p, i, j)
    BY StretchCut
  <2> QED
    BY <2>1 DEF Cut
<1>3. Stretch(Piece(p, i, j), a, m)
  BY <1>1, <1>2 DEF Stretch
<1>4. i = i + a - 1 /\ d = i + m - 1
  BY <1>1
<1>5. Stretch(p, i, d) /\ Piece(Piece(p, i, j), a, m) = Piece(p, i, d)
  BY <1>3, <1>4, PieceOfPiece
<1>6. Key(t) = Trim(Piece(t, a, m))
  <2>1. Split(t) - 1 = m
    BY <1>1
  <2> QED
    BY <1>1, <2>1 DEF Key, Piece
<1>7. Key(t) = Trim(Piece(p, i, d))
  BY <1>5, <1>6
<1>8. Trim(Piece(p, i, d)) = Strip(Piece(p, i, d))
  BY <1>5, TrimIsStrip
<1>9. Widened(p, i, d, a, d)
  <2>1. Stretch(p, a, d) /\ a <= i /\ d <= d /\ \A n \in a..d : n < i \/ n > d => p[n] = Blank
    BY <1>1, <1>2 DEF Stretch
  <2> QED
    BY <1>5, <2>1 DEF Widened
<1>10. Strip(Piece(p, a, d)) = Strip(Piece(p, i, d))
  BY <1>9, StripWider
<1> QED
  BY <1>1, <1>7, <1>8, <1>10

(* The value: what is behind it up to the newline, up to blanks. *)
LEMMA ValueEntered ==
    ASSUME NEW V, NEW p \in Seq(V), NEW t \in Seq(V), NEW l, LineIn(p, l),
           NEW i \in Nat, NEW j \in Nat, NEW q \in Nat,
           1 <= i, i <= q, q <= j, q <= l, j <= Len(p), t = Piece(p, i, j), Stretch(p, i, j),
           \A n \in 1..Len(p) : n > j => p[n] = Blank, Split(t) = q - i + 1
    PROVE  Strip(Value(t)) = Strip(Piece(p, q + 1, l))
<1> DEFINE N == Len(p)
           rest == From(t, Split(t) + 1)
           nls == {n \in DOMAIN rest : rest[n] = Newline}
<1>1. l \in Nat /\ N \in Nat
  BY LineText
<1>2. /\ l = N \/ (l + 1 = N /\ p[N] = Newline)
      /\ \A n \in 1..l : p[n] # Newline
  BY DEF LineIn
<1>3. PICK c, m, k \in Int : c = q + 1 /\ m = q - i + 2 /\ k = j - i + 1
  OBVIOUS
<1>4. Len(t) = k
  <2>1. Cut(V, p, i, j)
    BY StretchCut
  <2> QED
    BY <1>3, <2>1 DEF Cut
<1>5. rest = Piece(p, c, j) /\ Stretch(p, c, j)
  <2>1. Stretch(Piece(p, i, j), m, k)
    BY <1>3, <1>4 DEF Stretch
  <2>2. c = i + m - 1 /\ j = i + k - 1
    BY <1>3
  <2>3. Stretch(p, c, j) /\ Piece(Piece(p, i, j), m, k) = Piece(p, c, j)
    BY <2>1, <2>2, PieceOfPiece
  <2>4. Split(t) + 1 = m
    BY <1>3
  <2>5. rest = Piece(t, m, k)
    BY <1>4, <2>4 DEF From, Piece
  <2> QED
    BY <2>3, <2>5
<1>6. Value(t) = Trim(IF nls = {} THEN rest ELSE SubSeq(rest, 1, Min(nls) - 1))
  BY DEF Value, Where
<1>7. /\ rest \in Seq(V) /\ Len(rest) = j - c + 1
      /\ \A n \in 1..(j - c + 1) : rest[n] = p[c + n - 1]
  <2>1. Cut(V, p, c, j)
    BY <1>5, StretchCut
  <2> QED
    BY <1>5, <2>1 DEF Cut
<1> HIDE DEF N, rest
<1>8. DOMAIN rest = 1..(j - c + 1)
  BY <1>7
<1>9. Stretch(p, c, l)
  BY <1>1, <1>2, <1>3 DEF Stretch, N
<1>10. CASE l = N
  <2>1. ASSUME NEW n \in DOMAIN rest PROVE rest[n] # Newline
    <3>1. PICK h \in 1..l : h = c + n - 1
      <4>1. c + n - 1 \in 1..l
        BY <1>1, <1>3, <1>8, <1>10 DEF N
      <4> QED
        BY <4>1
    <3> QED
      BY <1>2, <1>7, <1>8, <3>1
  <2>2. Value(t) = Trim(Piece(p, c, j))
    BY <1>5, <1>6, <2>1
  <2>3. Strip(Value(t)) = Strip(Piece(p, c, j))
    BY <1>5, <2>2, StripTrim
  <2>4. c <= c /\ j <= l /\ \A n \in c..l : n < c \/ n > j => p[n] = Blank
    BY <1>1, <1>3, <1>10 DEF N
  <2>5. Widened(p, c, j, c, l)
    BY <1>5, <1>9, <2>4 DEF Widened
  <2>6. Strip(Piece(p, c, l)) = Strip(Piece(p, c, j))
    BY <2>5, StripWider
  <2> QED
    BY <1>3, <2>3, <2>6
<1>11. CASE l + 1 = N /\ p[N] = Newline
  <2>1. j = N
    BY <1>1, <1>11, Distinct DEF N
  <2>2. PICK e \in 1..(j - c + 1) : e = j - c + 1
    <3>1. j - c + 1 \in 1..(j - c + 1)
      BY <1>1, <1>3, <1>11, <2>1
    <3> QED
      BY <3>1
  <2>3. c + e - 1 = N
    BY <1>1, <1>3, <2>1, <2>2
  <2>4. e \in nls
    BY <1>7, <1>8, <1>11, <2>3
  <2>5. ASSUME NEW n \in nls PROVE e <= n
    <3>1. n \in 1..(j - c + 1) /\ rest[n] = Newline
      BY <1>8
    <3>2. ASSUME n < e PROVE FALSE
      <4>1. PICK h \in 1..l : h = c + n - 1
        <5>1. c + n - 1 \in 1..l
          BY <1>1, <1>3, <1>11, <2>1, <2>2, <3>1, <3>2
        <5> QED
          BY <5>1
      <4> QED
        BY <1>2, <1>7, <3>1, <4>1
    <3> QED
      BY <1>3, <2>2, <3>1, <3>2
  <2>6. nls \in SUBSET Int
    BY <1>8
  <2> HIDE DEF nls
  <2>7. Min(nls) = e
    BY <2>4, <2>5, <2>6, MinIs
  <2>8. PICK a, f \in Int : a = 1 /\ f = e - 1
    OBVIOUS
  <2>9. Value(t) = Trim(Piece(rest, a, f))
    BY <1>6, <2>4, <2>7, <2>8 DEF Piece
  <2>10. Stretch(Piece(p, c, j), a, f)
    BY <1>3, <1>5, <1>7, <2>2, <2>8 DEF Stretch
  <2>11. c = c + a - 1 /\ l = c + f - 1
    BY <1>1, <1>3, <1>11, <2>1, <2>2, <2>8
  <2>12. Piece(Piece(p, c, j), a, f) = Piece(p, c, l)
    BY <1>5, <2>10, <2>11, PieceOfPiece
  <2>13. Value(t) = Trim(Piece(p, c, l))
    BY <1>5, <2>9, <2>12
  <2> QED
    BY <1>3, <1>9, <2>13, StripTrim
<1> QED
  BY <1>2, <1>10, <1>11

(* Any other line enters what is behind its first '=' under what is before *)
(* it.                                                                     *)
Entered(p, l) ==
    LET q == FirstEquals(Piece(p, 1, l))
    IN  /\ Split(Trim(p)) # 0
        /\ Key(Trim(p)) = Strip(SubSeq(Piece(p, 1, l), 1, q - 1))
        /\ Strip(Value(Trim(p))) = Strip(From(Piece(p, 1, l), q + 1))

LEMMA LineWith ==
    ASSUME NEW V, NEW p \in Seq(V), NEW l, LineIn(p, l), ~IsComment(Piece(p, 1, l)),
           \E e \in DOMAIN Piece(p, 1, l) : Piece(p, 1, l)[e] = Equals
    PROVE  Entered(p, l)
<1> DEFINE N == Len(p)
           t == Trim(p)
           L == Piece(p, 1, l)
           eqs == {n \in 1..l : p[n] = Equals}
<1>1. /\ l \in Nat /\ N \in Nat /\ Stretch(p, 1, l) /\ L \in Seq(V) /\ Len(L) = l
      /\ DOMAIN L = 1..l /\ \A n \in 1..l : L[n] = p[n]
  BY LineText
<1>2. l <= N
  BY <1>1 DEF LineIn
<1>3. eqs # {} /\ eqs \in SUBSET Nat
  BY <1>1
<1>4. PICK q \in eqs : \A y \in eqs : q <= y
  BY <1>3, LeastNumber
<1>5. q \in 1..l /\ q \in Nat /\ p[q] = Equals /\ \A n \in 1..l : n < q => p[n] # Equals
  BY <1>1, <1>4
<1>6. PICK i, j \in Nat : TrimmedTo(V, p, t, i, j)
  <2>1. ~\A n \in 1..N : p[n] = Blank
    BY <1>1, <1>2, <1>5, Distinct
  <2> QED
    BY <2>1, Trimmed
<1>7. /\ i \in 1..N /\ j \in 1..N /\ i <= j /\ p[i] # Blank
      /\ \A n \in 1..N : n < i \/ n > j => p[n] = Blank
      /\ t = Piece(p, i, j) /\ Stretch(p, i, j) /\ t \in Seq(V) /\ Len(t) = j - i + 1
      /\ \A n \in 1..(j - i + 1) : t[n] = p[i + n - 1]
  BY <1>6 DEF TrimmedTo
<1> HIDE DEF N, t, L, eqs
<1>8. i <= q /\ q <= j
  BY <1>1, <1>2, <1>5, <1>7, Distinct
<1>9. p[i] # Hash
  <2>1. SUFFICES ASSUME p[i] = Hash PROVE IsComment(L)
    BY DEF L
  <2>2. i \in DOMAIN L /\ L[i] = Hash
    BY <1>1, <1>5, <1>7, <1>8, <2>1
  <2>3. \A n \in 1..(i - 1) : L[n] = Blank
    BY <1>1, <1>2, <1>5, <1>7, <1>8
  <2> QED
    BY <2>2, <2>3 DEF IsComment
<1>10. PICK k \in 1..(j - i + 1) : k = q - i + 1
  <2>1. q - i + 1 \in 1..(j - i + 1)
    BY <1>1, <1>5, <1>7, <1>8
  <2> QED
    BY <2>1
<1>11. Split(t) = k
  <2>1. t[k] = Equals
    <3>1. i + k - 1 = q
      BY <1>5, <1>7, <1>10
    <3> QED
      BY <1>5, <1>7, <3>1
  <2>2. t[1] # Hash
    <3>1. PICK o \in 1..(j - i + 1) : o = 1
      BY <1>1, <1>7
    <3>2. i + o - 1 = i
      BY <1>7, <3>1
    <3> QED
      BY <1>7, <1>9, <3>1, <3>2
  <2>3. ASSUME NEW n \in 1..Len(t), n < k PROVE t[n] # Equals
    <3>1. PICK h \in 1..l : h = i + n - 1
      <4>1. i + n - 1 \in 1..l
        BY <1>1, <1>5, <1>7, <1>8, <1>10, <2>3
      <4> QED
        BY <4>1
    <3>2. h < q
      BY <1>5, <1>7, <1>10, <2>3, <3>1
    <3>3. t[n] = p[h]
      BY <1>7, <3>1
    <3> QED
      BY <1>5, <3>2, <3>3
  <2>4. t \in Seq(V) /\ k \in 1..Len(t)
    BY <1>7
  <2> QED
    BY <2>1, <2>2, <2>3, <2>4, SplitAt
<1>12. FirstEquals(L) = q
  <2>1. L \in Seq(V) /\ q \in 1..Len(L) /\ L[q] = Equals
    BY <1>1, <1>5
  <2>2. \A n \in 1..Len(L) : n < q => L[n] # Equals
    BY <1>1, <1>5
  <2> QED
    BY <2>1, <2>2, FirstEqualsAt
<1>13. Split(t) = q - i + 1 /\ Split(t) # 0
  BY <1>10, <1>11
<1>14. 1 <= i /\ j <= Len(p) /\ q <= l /\ i \in Nat /\ j \in Nat
  BY <1>1, <1>5, <1>7 DEF N
<1>15. Key(t) = Strip(Piece(p, 1, q - 1))
  <2>1. \A n \in 1..Len(p) : n < i => p[n] = Blank
    BY <1>7 DEF N
  <2> QED
    BY <1>5, <1>7, <1>8, <1>13, <1>14, <2>1, KeyEntered
<1>16. Strip(Value(t)) = Strip(Piece(p, q + 1, l))
  <2>1. \A n \in 1..Len(p) : n > j => p[n] = Blank
    BY <1>7 DEF N
  <2> QED
    BY <1>5, <1>7, <1>8, <1>13, <1>14, <2>1, ValueEntered
<1>17. PICK a, d, c \in Int : a = 1 /\ d = q - 1 /\ c = q + 1
  BY <1>5
<1>18. Piece(L, a, d) = Piece(p, a, d)
  <2>1. L = Piece(p, a, l) /\ Stretch(p, a, l)
    BY <1>1, <1>17 DEF L
  <2>2. Stretch(Piece(p, a, l), a, d)
    BY <1>1, <1>5, <1>17, <2>1 DEF Stretch
  <2>3. a = a + a - 1 /\ d = a + d - 1
    BY <1>17
  <2> QED
    BY <2>1, <2>2, <2>3, PieceOfPiece
<1>19. Piece(L, c, l) = Piece(p, c, l)
  <2>1. L = Piece(p, a, l) /\ Stretch(p, a, l)
    BY <1>1, <1>17 DEF L
  <2>2. Stretch(Piece(p, a, l), c, l)
    BY <1>1, <1>5, <1>17, <2>1 DEF Stretch
  <2>3. c = a + c - 1 /\ l = a + l - 1
    BY <1>1, <1>17
  <2> QED
    BY <2>1, <2>2, <2>3, PieceOfPiece
<1>20. SubSeq(L, 1, q - 1) = Piece(p, 1, q - 1)
  BY <1>17, <1>18 DEF Piece
<1>21. From(L, q + 1) = Piece(p, q + 1, l)
  BY <1>1, <1>17, <1>19 DEF From, Piece
<1> QED
  BY <1>12, <1>13, <1>15, <1>16, <1>20, <1>21 DEF Entered, t, L

(* What fgets takes where a line starts that fits the buffer: p, with the  *)
(* line in its first l characters, up to the next start or the end.        *)
Taken(p, l) ==
    /\ p = Fgets /\ LineIn(p, l) /\ LineAt(pos + 1) = Piece(p, 1, l)
    /\ Len(p) \in Nat \ {0} /\ pos + Len(p) <= Len(file)
    /\ \A n \in (pos + 1)..(pos + l) : file[n] # Newline
    /\ pos + Len(p) = Len(file) \/ file[pos + Len(p)] = Newline

LEMMA FgetsLine ==
    ASSUME NEW V, file \in Seq(V), pos \in Nat, pos < Len(file), BufSize \in Nat,
           Len(LineAt(pos + 1)) + 1 < BufSize
    PROVE  Fgets \in Seq(V) /\ \E l : Taken(Fgets, l)
<1> DEFINE rest == From(file, pos + 1)
           nls == {i \in DOMAIN rest : rest[i] = Newline}
           ends == nls \union {Len(rest), BufSize - 1}
           here == {j \in (pos + 1)..Len(file) : file[j] = Newline}
           line == LineAt(pos + 1)
<1>1. Fgets = SubSeq(rest, 1, Min(ends))
  BY DEF Fgets, Where
<1>2. line = SubSeq(file, pos + 1, IF here = {} THEN Len(file) ELSE Min(here) - 1)
  BY DEF LineAt
<1>3. PICK s, N, a \in Nat : s = pos + 1 /\ N = Len(file) /\ a = 1
  OBVIOUS
<1>4. Stretch(file, s, N) /\ rest = Piece(file, s, N)
  BY <1>3 DEF Stretch, From, Piece
<1>5. /\ rest \in Seq(V) /\ Len(rest) = N - s + 1
      /\ \A n \in 1..(N - s + 1) : rest[n] = file[s + n - 1]
  <2>1. Cut(V, file, s, N)
    BY <1>4, StretchCut
  <2> QED
    BY <1>4, <2>1 DEF Cut
<1>6. here \in SUBSET Nat /\ \A j \in here : j \in s..N /\ file[j] = Newline
  BY <1>3
<1>7. \A j \in s..N : file[j] = Newline => j \in here
  BY <1>3
<1> HIDE DEF rest, here, line
<1>8. nls \in SUBSET Int /\ \A n \in nls : n \in 1..(N - s + 1) /\ file[s + n - 1] = Newline
  BY <1>5
<1>9. \A n \in 1..(N - s + 1) : file[s + n - 1] = Newline => n \in nls
  BY <1>5
<1>10. N - s + 1 \in ends /\ BufSize - 1 \in ends /\ nls \subseteq ends /\ ends \in SUBSET Int
       /\ \A x \in ends : x \in nls \/ x = N - s + 1 \/ x = BufSize - 1
  BY <1>3, <1>5, <1>8
<1> HIDE DEF nls, ends
<1>11. Len(line) + 1 < BufSize
  BY DEF line
<1>12. CASE here = {}
  <2>1. line = rest
    BY <1>2, <1>3, <1>4, <1>12 DEF Piece
  <2>2. nls = {}
    <3>1. ASSUME NEW n \in nls PROVE FALSE
      <4>1. PICK j \in s..N : j = s + n - 1
        <5>1. s + n - 1 \in s..N
          BY <1>3, <1>8
        <5> QED
          BY <5>1
      <4> QED
        BY <1>7, <1>8, <1>12, <4>1
    <3> QED
      BY <3>1
  <2>3. PICK l \in ends : l = N - s + 1
    BY <1>10
  <2>4. ASSUME NEW y \in ends PROVE l <= y
    <3>1. Len(line) = l
      BY <1>5, <2>1, <2>3
    <3>2. y = l \/ y = BufSize - 1
      BY <1>10, <2>2, <2>3
    <3>3. l \in Int
      BY <1>10
    <3> QED
      BY <1>11, <3>1, <3>2, <3>3
  <2>5. Min(ends) = l
    BY <1>10, <2>4, MinIs
  <2>6. Piece(rest, 1, l) = rest
    <3>1. Len(rest) = l
      BY <1>5, <2>3
    <3> QED
      BY <1>5, <3>1, WholeText
  <2>7. Fgets = rest
    BY <1>1, <2>5, <2>6 DEF Piece
  <2>8. l \in Nat \ {0} /\ Len(rest) = l /\ pos + l = N
    BY <1>3, <1>5, <2>3
  <2>9. \A n \in 1..l : rest[n] # Newline
    <3>1. \A n \in 1..l : rest[n] = file[s + n - 1] /\ n \notin nls
      BY <1>5, <2>2, <2>3
    <3> QED
      BY <1>9, <2>3, <3>1
  <2>10. \A n \in (pos + 1)..(pos + l) : file[n] # Newline
    BY <1>3, <1>7, <1>12, <2>8
  <2>11. LineIn(rest, l)
    <3>1. l \in 0..Len(rest) /\ l = Len(rest)
      BY <2>8
    <3> QED
      BY <2>9, <3>1 DEF LineIn
  <2>12. LineAt(pos + 1) = Piece(rest, 1, l)
    BY <2>1, <2>6 DEF line
  <2>13. Taken(rest, l)
    BY <1>3, <2>7, <2>8, <2>10, <2>11, <2>12 DEF Taken
  <2> QED
    BY <1>5, <2>7, <2>13
<1>13. CASE here # {}
  <2>1. PICK e \in here : \A y \in here : e <= y
    BY <1>6, <1>13, LeastNumber
  <2>2. e \in s..N /\ file[e] = Newline /\ e \in Nat
    BY <1>6
  <2>3. Min(here) = e
    <3>1. here \in SUBSET Int
      BY <1>6
    <3> QED
      BY <2>1, <3>1, MinIs
  <2>4. PICK l, k, d \in Nat : l = e - s /\ k = l + 1 /\ d = e - 1
    BY <1>3, <2>2
  <2>5. line = Piece(file, s, d)
    BY <1>2, <1>3, <1>13, <2>3, <2>4 DEF Piece
  <2>6. Stretch(file, s, d)
    BY <1>3, <2>2, <2>4 DEF Stretch
  <2>7. Len(line) = l
    <3>1. Cut(V, file, s, d)
      BY <2>6, StretchCut
    <3>2. Len(line) = d - s + 1
      BY <2>5, <3>1 DEF Cut
    <3> QED
      BY <1>3, <2>2, <2>4, <3>2
  <2>8. k \in 1..(N - s + 1) /\ s + k - 1 = e
    BY <1>3, <2>2, <2>4
  <2>9. k \in ends
    BY <1>9, <1>10, <2>2, <2>8
  <2>10. ASSUME NEW y \in ends PROVE k <= y
    <3>1. CASE y \in nls
      <4>1. PICK j \in s..N : j = s + y - 1
        <5>1. s + y - 1 \in s..N
          BY <1>3, <1>8, <3>1
        <5> QED
          BY <5>1
      <4>2. e <= j
        BY <1>7, <1>8, <2>1, <3>1, <4>1
      <4> QED
        BY <1>3, <1>8, <2>2, <2>8, <3>1, <4>1, <4>2
    <3>2. CASE y = N - s + 1
      BY <1>3, <2>8, <3>2
    <3>3. CASE y = BufSize - 1
      BY <1>11, <2>4, <2>7, <3>3
    <3> QED
      BY <1>10, <3>1, <3>2, <3>3
  <2>11. Min(ends) = k
    BY <1>10, <2>9, <2>10, MinIs
  <2>12. PICK p : p = Piece(rest, a, k)
    OBVIOUS
  <2>13. Fgets = p
    BY <1>1, <1>3, <2>11, <2>12 DEF Piece
  <2>14. Stretch(rest, a, k) /\ Stretch(rest, a, l)
    BY <1>3, <1>5, <2>2, <2>4, <2>8 DEF Stretch
  <2>15. p \in Seq(V) /\ Len(p) = k /\ \A n \in 1..k : p[n] = rest[n]
    <3>1. Cut(V, rest, a, k)
      BY <1>5, <2>14, StretchCut
    <3>2. p \in Seq(V) /\ Len(p) = k - a + 1 /\ \A n \in 1..(k - a + 1) : p[n] = rest[a + n - 1]
      BY <2>12, <3>1 DEF Cut
    <3>3. k - a + 1 = k /\ \A n \in 1..k : a + n - 1 = n
      BY <1>3, <2>4
    <3> QED
      BY <3>2, <3>3
  <2>16. \A n \in 1..k : p[n] = file[s + n - 1]
    <3>1. \A n \in 1..k : n \in 1..(N - s + 1)
      BY <1>3, <2>8
    <3> QED
      BY <1>5, <2>15, <3>1
  <2>17. Piece(rest, a, l) = Piece(file, s, d)
    <3>1. Stretch(Piece(file, s, N), a, l)
      BY <1>4, <2>14
    <3>2. s = s + a - 1 /\ d = s + l - 1
      BY <1>3, <2>2, <2>4
    <3> QED
      BY <1>4, <3>1, <3>2, PieceOfPiece
  <2>18. Piece(p, a, l) = Piece(rest, a, l)
    <3>1. Stretch(Piece(rest, a, k), a, l)
      BY <1>3, <2>4, <2>12, <2>15 DEF Stretch
    <3>2. a = a + a - 1 /\ l = a + l - 1
      BY <1>3
    <3> QED
      BY <1>5, <2>12, <2>14, <3>1, <3>2, PieceOfPiece
  <2>19. LineAt(pos + 1) = Piece(p, 1, l)
    BY <1>3, <2>5, <2>17, <2>18 DEF line
  <2>20. \A n \in s..d : file[n] # Newline
    <3>1. \A n \in s..d : n \in s..N /\ ~(e <= n)
      BY <1>3, <2>2, <2>4
    <3> QED
      BY <1>7, <2>1, <3>1
  <2>21. \A n \in 1..l : p[n] # Newline
    <3>1. ASSUME NEW n \in 1..l PROVE p[n] # Newline
      <4>1. PICK j \in s..d : j = s + n - 1
        <5>1. s + n - 1 \in s..d
          BY <1>3, <2>2, <2>4
        <5> QED
          BY <5>1
      <4>2. n \in 1..k
        BY <2>4
      <4> QED
        BY <2>16, <2>20, <4>1, <4>2
    <3> QED
      BY <3>1
  <2>22. p[k] = Newline
    <3>1. k \in 1..k
      BY <2>8
    <3> QED
      BY <2>2, <2>8, <2>16, <3>1
  <2>23. LineIn(p, l)
    BY <2>4, <2>15, <2>21, <2>22 DEF LineIn
  <2>24. k \in Nat \ {0} /\ pos + k = e /\ e <= N
    BY <1>3, <2>2, <2>4
  <2>25. \A n \in (pos + 1)..(pos + l) : file[n] # Newline
    <3>1. pos + l = d /\ pos + 1 = s
      BY <1>3, <2>2, <2>4
    <3> QED
      BY <2>20, <3>1
  <2>26. Taken(p, l)
    BY <1>3, <2>2, <2>13, <2>15, <2>19, <2>23, <2>24, <2>25 DEF Taken
  <2> QED
    BY <2>13, <2>15, <2>26
<1> QED
  BY <1>12, <1>13

-----------------------------------------------------------------------------
(* The map m holds what the lines that start at or before n assign. *)
Held(m, n) ==
    LET upto == {i \in Assignments : i <= n}
    IN  /\ DOMAIN m = {LineKey(i) : i \in upto}
        /\ \A i \in upto : (\A j \in upto : j < i => LineKey(j) # LineKey(i))
                             => Strip(m[LineKey(i)]) = LineValue(i)

(* Where lines fit the buffer, fgets stops only where a line starts, or at *)
(* the end, and the map m holds the lines before.                          *)
AtStart(m, n) == /\ n \in 0..Len(file)
                 /\ n < Len(file) => n + 1 \in LineStarts
                 /\ Held(m, n)

LoadInv == /\ BufSize \in Nat /\ file \in Seq(Chars)
           /\ status = "loaded" => pos = Len(file)
           /\ LinesFit => AtStart(config_map, pos)

(* Where lines start. *)
LEMMA Starts ==
    ASSUME NEW V, file \in Seq(V), NEW i
    PROVE  i \in LineStarts <=> i = 1 \/ \E n \in 1..Len(file) : i = n + 1 /\ file[n] = Newline
<1>1. DOMAIN file = 1..Len(file)
  OBVIOUS
<1>2. LineStarts = {1} \union {n + 1 : n \in {k \in DOMAIN file : file[k] = Newline}}
  BY DEF LineStarts, Where
<1> QED
  BY <1>1, <1>2

(* The piece reaches to the next start, and there is none within it. *)
LEMMA NextStart ==
    ASSUME NEW V, file \in Seq(V), pos \in Nat, NEW p \in Seq(V), NEW l, Taken(p, l), NEW n \in Nat,
           n = pos + Len(p)
    PROVE  /\ n \in 0..Len(file)
           /\ n < Len(file) => n + 1 \in LineStarts
           /\ \A i \in LineStarts : i <= n <=> i <= pos \/ i = pos + 1
<1>1. PICK N, k \in Nat : N = Len(file) /\ k = Len(p)
  OBVIOUS
<1>2. /\ k # 0 /\ n = pos + k /\ n <= N /\ l \in 0..k /\ (l = k \/ l + 1 = k)
      /\ \A j \in (pos + 1)..(pos + l) : file[j] # Newline
      /\ n = N \/ file[n] = Newline
  BY <1>1 DEF Taken, LineIn
<1>3. ASSUME n < Len(file) PROVE n + 1 \in LineStarts
  <2>1. n \in 1..Len(file) /\ file[n] = Newline
    BY <1>1, <1>2, <1>3
  <2>2. PICK i : i = n + 1
    OBVIOUS
  <2> QED
    BY <2>1, <2>2, Starts
<1>4. ASSUME NEW i \in LineStarts PROVE i <= n <=> i <= pos \/ i = pos + 1
  <2>1. CASE i = 1
    BY <1>2, <2>1
  <2>2. ASSUME NEW j \in 1..Len(file), i = j + 1, file[j] = Newline
        PROVE  i <= n <=> i <= pos \/ i = pos + 1
    <3>1. j \notin (pos + 1)..(pos + l)
      BY <1>2, <2>2
    <3>2. j <= pos \/ j > pos + l
      BY <1>2, <3>1
    <3> QED
      BY <1>2, <2>2, <3>2
  <2> QED
    BY <2>1, <2>2, Starts
<1>5. n \in 0..Len(file)
  BY <1>1, <1>2
<1> QED
  BY <1>3, <1>4, <1>5

(* A line at s is entered into what holds the lines before it. *)
LEMMA EnterLine ==
    ASSUME NEW s \in Assignments, NEW m, NEW n, NEW k, NEW v, NEW o \in Nat, s = n + 1, n \in Nat,
           Assignments \subseteq Nat,
           \A i \in Assignments : i <= o <=> i <= n \/ i = s,
           Held(m, n), k = LineKey(s), Strip(v) = LineValue(s)
    PROVE  Held(Insert(m, k, v), o)
<1> DEFINE A == {i \in Assignments : i <= n}
           B == {i \in Assignments : i <= o}
<1>1. PICK f : f = Insert(m, k, v)
  OBVIOUS
<1>2. /\ DOMAIN f = DOMAIN m \union {k}
      /\ \A x \in DOMAIN f : f[x] = IF x \in DOMAIN m THEN m[x] ELSE v
  BY <1>1 DEF Insert
<1>3. /\ DOMAIN m = {LineKey(i) : i \in A}
      /\ \A i \in A : (\A j \in A : j < i => LineKey(j) # LineKey(i))
                        => Strip(m[LineKey(i)]) = LineValue(i)
  BY DEF Held
<1>4. B = A \union {s} /\ \A i \in A : i < s
  <2>1. \A i \in A : i \in Nat /\ i <= n
    OBVIOUS
  <2>2. \A i \in A : i < s
    BY <2>1
  <2>3. \A i : i \in B <=> i \in A \/ i = s
    OBVIOUS
  <2> QED
    BY <2>2, <2>3
<1> HIDE DEF A, B
<1>5. DOMAIN f = {LineKey(i) : i \in B}
  BY <1>2, <1>3, <1>4
<1>6. ASSUME NEW i \in B, \A j \in B : j < i => LineKey(j) # LineKey(i)
      PROVE  Strip(f[LineKey(i)]) = LineValue(i)
  <2>1. LineKey(i) \in DOMAIN f
    BY <1>5
  <2>2. CASE i \in A
    <3>1. LineKey(i) \in DOMAIN m
      BY <1>3, <2>2
    <3>2. f[LineKey(i)] = m[LineKey(i)]
      BY <1>2, <2>1, <3>1
    <3> QED
      BY <1>3, <1>4, <1>6, <2>2, <3>2
  <2>3. CASE i = s
    <3>1. k \notin DOMAIN m
      BY <1>3, <1>4, <1>6, <2>3
    <3>2. f[LineKey(i)] = v
      BY <1>2, <2>1, <2>3, <3>1
    <3> QED
      BY <2>3, <3>2
  <2> QED
    BY <1>4, <2>2, <2>3
<1>7. Held(f, o)
  BY <1>5, <1>6 DEF Held, B
<1> QED
  BY <1>1, <1>7

(* A piece that holds a line without an assignment adds nothing. *)
LEMMA SkipLine ==
    ASSUME NEW m, NEW n, NEW o, \A i \in Assignments : i <= o <=> i <= n, Held(m, n)
    PROVE  Held(m, o)
<1>1. {i \in Assignments : i <= o} = {i \in Assignments : i <= n}
  OBVIOUS
<1> QED
  BY <1>1 DEF Held

(* One turn of the loop, before its effect is assigned. *)
LEMMA TurnHeld ==
    ASSUME NEW V, file \in Seq(V), pos \in Nat, pos < Len(file), BufSize \in Nat, LinesFit,
           NEW m, AtStart(m, pos), NEW n, n = pos + Len(Fgets), NEW t,
           t = IF Split(Trim(Fgets)) = 0 THEN m
               ELSE Insert(m, Key(Trim(Fgets)), Value(Trim(Fgets)))
    PROVE  AtStart(t, n)
<1>0. pos + 1 \in LineStarts /\ Held(m, pos)
  BY DEF AtStart
<1>1. Fgets \in Seq(V) /\ \E l : Taken(Fgets, l)
  <2>1. Len(LineAt(pos + 1)) + 1 < BufSize
    BY <1>0 DEF LinesFit
  <2> QED
    BY <2>1, FgetsLine
<1>2. PICK p \in Seq(V) : p = Fgets
  BY <1>1
<1>3. PICK l : Taken(p, l)
  BY <1>1, <1>2
<1>4. n \in Nat /\ n = pos + Len(p)
  BY <1>2
<1>5. /\ n \in 0..Len(file)
      /\ n < Len(file) => n + 1 \in LineStarts
      /\ \A i \in LineStarts : i <= n <=> i <= pos \/ i = pos + 1
  BY <1>3, <1>4, NextStart
<1>6. PICK s : s = pos + 1
  OBVIOUS
<1>7. LineIn(p, l) /\ LineAt(s) = Piece(p, 1, l)
  BY <1>3, <1>6 DEF Taken
<1>8. Assignments \subseteq LineStarts
  BY DEF Assignments
<1>9. CASE s \in Assignments
  <2>1. /\ ~IsComment(Piece(p, 1, l))
        /\ \E e \in DOMAIN Piece(p, 1, l) : Piece(p, 1, l)[e] = Equals
    BY <1>7, <1>9 DEF Assignments
  <2>2. Entered(p, l)
    BY <1>7, <2>1, LineWith
  <2>3. PICK k, v : k = Key(Trim(p)) /\ v = Value(Trim(p))
    OBVIOUS
  <2>4. Split(Trim(p)) # 0
    BY <2>2 DEF Entered
  <2>5. k = LineKey(s)
    BY <1>7, <2>2, <2>3 DEF Entered, LineKey
  <2>6. Strip(v) = LineValue(s)
    BY <1>7, <2>2, <2>3 DEF Entered, LineValue
  <2>7. Assignments \subseteq Nat
    <3>1. \A i \in LineStarts : i \in Nat
      BY Starts
    <3> QED
      BY <1>8, <3>1
  <2>8. \A i \in Assignments : i <= n <=> i <= pos \/ i = s
    BY <1>5, <1>6, <1>8
  <2>9. Held(Insert(m, k, v), n)
    BY <1>0, <1>4, <1>6, <1>9, <2>5, <2>6, <2>7, <2>8, EnterLine
  <2> QED
    BY <1>2, <1>5, <2>3, <2>4, <2>9 DEF AtStart
<1>10. CASE s \notin Assignments
  <2>1. \/ IsComment(Piece(p, 1, l))
        \/ ~\E e \in DOMAIN Piece(p, 1, l) : Piece(p, 1, l)[e] = Equals
    BY <1>0, <1>6, <1>7, <1>10 DEF Assignments
  <2>2. Split(Trim(p)) = 0
    BY <1>7, <2>1, LineWithout
  <2>3. \A i \in Assignments : i <= n <=> i <= pos
    BY <1>5, <1>6, <1>8, <1>10
  <2>4. Held(m, n)
    BY <1>0, <2>3, SkipLine
  <2> QED
    BY <1>2, <1>5, <2>2, <2>4 DEF AtStart
<1> QED
  BY <1>9, <1>10

(* The lines of the file are those it had, as long as it does. *)
LEMMA SameFile ==
    ASSUME file' = file
    PROVE  /\ LineStarts' = LineStarts /\ LinesFit' = LinesFit /\ Assignments' = Assignments
           /\ \A i : LineKey(i)' = LineKey(i) /\ LineValue(i)' = LineValue(i)
<1>1. LineStarts' = LineStarts
  BY DEF LineStarts, Where
<1>2. \A i : LineAt(i)' = LineAt(i)
  BY DEF LineAt
<1>3. LinesFit' = LinesFit
  BY <1>1, <1>2 DEF LinesFit
<1>4. Assignments' = Assignments
  BY <1>1, <1>2 DEF Assignments
<1>5. \A i : LineKey(i)' = LineKey(i) /\ LineValue(i)' = LineValue(i)
  BY <1>2 DEF LineKey, LineValue
<1> QED
  BY <1>1, <1>3, <1>4, <1>5

LEMMA SameStart ==
    ASSUME file' = file, NEW m, NEW n, m = config_map', n = pos', AtStart(m, n)
    PROVE  AtStart(config_map, pos)'
  BY SameFile DEF AtStart, Held

(* LoadInv is inductive. *)
LEMMA LoadInit ==
    ASSUME BufSize \in Nat, MaxFile \in Nat, ConfigInit
    PROVE  LoadInv
<1>1. PICK n \in 0..MaxFile : file \in [1..n -> Chars]
  BY DEF ConfigInit, Texts
<1>2. file \in Seq(Chars) /\ Len(file) = n /\ n \in Nat
  BY <1>1
<1>3. pos = 0 /\ config_map = << >> /\ status # "loaded"
  BY DEF ConfigInit
<1>4. pos + 1 \in LineStarts
  <2>1. PICK i : i = pos + 1
    OBVIOUS
  <2>2. i = 1
    BY <1>3, <2>1
  <2> QED
    BY <1>2, <2>1, <2>2, Starts
<1>5. {i \in Assignments : i <= pos} = {}
  <2>1. \A i \in LineStarts : i \in Nat \ {0}
    BY <1>2, Starts
  <2> QED
    BY <1>3, <2>1 DEF Assignments
<1>6. Held(config_map, pos)
  BY <1>3, <1>5 DEF Held
<1>7. pos \in 0..Len(file)
  BY <1>2, <1>3
<1> QED
  BY <1>2, <1>3, <1>4, <1>6, <1>7 DEF LoadInv, AtStart

LEMMA LoadStep ==
    ASSUME LoadInv, [ConfigNext]_configVars
    PROVE  LoadInv'
<1>0. BufSize \in Nat /\ file \in Seq(Chars)
  BY DEF LoadInv
<1>1. PICK m, n : m = config_map' /\ n = pos'
  OBVIOUS
<1>2. SUFFICES /\ file' = file
               /\ status' = "loaded" => n = Len(file)
               /\ LinesFit => AtStart(m, n)
  <2> SUFFICES ASSUME file' = file, status' = "loaded" => n = Len(file), LinesFit => AtStart(m, n)
               PROVE  LoadInv'
    OBVIOUS
  <2>1. AtStart(m, n) => AtStart(config_map, pos)'
    BY <1>1, SameStart
  <2>2. LinesFit' = LinesFit
    BY SameFile
  <2> QED
    BY <1>0, <1>1, <2>1, <2>2 DEF LoadInv
<1>3. CASE ReadLine
  <2>1. /\ file' = file /\ status' = status /\ status = "loading" /\ pos < Len(file)
        /\ n = pos + Len(Fgets)
        /\ m = IF Split(Trim(Fgets)) = 0 THEN config_map
               ELSE Insert(config_map, Key(Trim(Fgets)), Value(Trim(Fgets)))
    BY <1>1, <1>3 DEF ReadLine
  <2>2. ASSUME LinesFit PROVE AtStart(m, n)
    <3>1. AtStart(config_map, pos)
      BY <2>2 DEF LoadInv
    <3>2. pos \in Nat
      BY <3>1 DEF AtStart
    <3> QED
      BY <1>0, <2>1, <2>2, <3>1, <3>2, TurnHeld
  <2> QED
    BY <2>1, <2>2
<1>4. CASE Open \/ EndOfFile \/ UNCHANGED configVars
  <2>1. UNCHANGED <<file, pos, config_map>>
    BY <1>4 DEF Open, EndOfFile, configVars
  <2>2. status' = "loaded" => pos = Len(file)
    BY <1>4 DEF Open, EndOfFile, configVars, LoadInv
  <2> QED
    BY <1>1, <2>1, <2>2 DEF LoadInv
<1> QED
  BY <1>3, <1>4 DEF ConfigNext

(* A line that starts behind the last character is empty. *)
LEMMA AssignedInside ==
    ASSUME NEW V, file \in Seq(V), NEW i \in Assignments
    PROVE  i <= Len(file)
<1>1. i \in LineStarts /\ \E e \in DOMAIN LineAt(i) : LineAt(i)[e] = Equals
  BY DEF Assignments
<1>2. PICK N \in Nat : N = Len(file)
  OBVIOUS
<1>3. i \in Nat /\ (i <= N \/ i = N + 1)
  BY <1>1, <1>2, Starts
<1>4. ASSUME i = N + 1 PROVE FALSE
  <2>1. {j \in i..Len(file) : file[j] = Newline} = {}
    BY <1>2, <1>4
  <2>2. LineAt(i) = Piece(file, i, N)
    BY <1>2, <2>1 DEF LineAt, Piece
  <2>3. Stretch(file, i, N)
    BY <1>2, <1>4 DEF Stretch
  <2>4. Cut(V, file, i, N)
    BY <1>3, <2>3, StretchCut
  <2>5. Piece(file, i, N) \in Seq(V) /\ Len(Piece(file, i, N)) = 0
    BY <1>2, <1>4, <2>4 DEF Cut
  <2> QED
    BY <1>1, <2>2, <2>5
<1> QED
  BY <1>2, <1>3, <1>4

(* At the end of the file it says what FirstAssignmentWins does. *)
LEMMA LoadedWins ==
    ASSUME LoadInv
    PROVE  FirstAssignmentWins
<1> SUFFICES ASSUME status = "loaded", LinesFit
             PROVE  /\ DOMAIN config_map = {LineKey(i) : i \in Assignments}
                    /\ \A i \in Assignments :
                          (\A j \in Assignments : j < i => LineKey(j) # LineKey(i))
                            => Strip(Load(LineKey(i))) = LineValue(i)
  BY DEF FirstAssignmentWins
<1>1. file \in Seq(Chars) /\ pos = Len(file) /\ Held(config_map, pos)
  BY DEF LoadInv, AtStart
<1>2. {i \in Assignments : i <= pos} = Assignments
  BY <1>1, AssignedInside
<1>3. /\ DOMAIN config_map = {LineKey(i) : i \in Assignments}
      /\ \A i \in Assignments : (\A j \in Assignments : j < i => LineKey(j) # LineKey(i))
                                   => Strip(config_map[LineKey(i)]) = LineValue(i)
  BY <1>1, <1>2 DEF Held
<1>4. \A i \in Assignments : Load(LineKey(i)) = config_map[LineKey(i)]
  BY <1>3 DEF Load
<1> QED
  BY <1>3, <1>4

(* Krpcconfig::LoadConfigFile: when it returns, config_map has the keys    *)
(* that the lines of the file assign to, each with the value of the first  *)
(* line that does, whatever the file, as long as its lines fit the buffer. *)
THEOREM ConfigLoaded == ConfigSpec => []FirstAssignmentWins
<1>1. ConfigInit => LoadInv
  BY KrpcConfigBounds, LoadInit
<1>2. LoadInv /\ [ConfigNext]_configVars => LoadInv'
  BY LoadStep
<1>3. LoadInv => FirstAssignmentWins
  BY LoadedWins
<1> QED
  BY <1>1, <1>2, <1>3, PTL DEF ConfigSpec
=============================================================================
