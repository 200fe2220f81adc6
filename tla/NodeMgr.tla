------------------------------ MODULE NodeMgr ------------------------------
(***************************************************************************)
(* A node's components (nos_node_mgr.c), the service registry and the      *)
(* start and dispatch of a worker thread (nos_scheduler.c), and the end of *)
(* the process (nos_node_main.c).                                          *)
(*                                                                         *)
(* Four parties share this state and no lock protects it:                  *)
(*   the worker   starts its components, then runs the provider of each    *)
(*                message's service;                                       *)
(*   the CLI      unloads and reloads components at the operator's word;   *)
(*   main         waits for the end, joins the others and cleans up;       *)
(*   the posters  other threads and handlers, which look a service up and  *)
(*                put a message into the worker's ring.                    *)
(* A step is one access to what another party may change meanwhile.  Main  *)
(* reads loaded_info only after it has joined the CLI, so what the CLI     *)
(* does to it takes part in the neighbouring step.                         *)
(*                                                                         *)
(* A component loaded again is a new instance: instances are numbered in   *)
(* the order of their loading and stand for the addresses of their memory. *)
(***************************************************************************)
EXTENDS Integers, FiniteSets, SequencesExt

CONSTANTS
    Manifest,      \* the components of the worker, in the manifest's order
    ServiceList,   \* the services of the manifest, in its order
    ProviderOf,    \* the component that provides a service, or Elsewhere
    Elsewhere,     \* ... for a service of another node
    RegSize,       \* 64: entries of the service registry
    MaxInst,       \* bound: instances loaded
    MaxPosts       \* bound: messages posted

Comps == ToSet(Manifest)
Services == ToSet(ServiceList)

ASSUME ManifestAssumption ==
    /\ Manifest \in Seq(Comps) /\ ServiceList \in Seq(Services)
    /\ IsInjective(Manifest) /\ IsInjective(ServiceList)
    /\ ProviderOf \in [Services -> Comps \cup {Elsewhere}] /\ Elsewhere \notin Comps
    /\ RegSize \in Nat /\ Len(ServiceList) <= RegSize
    /\ MaxInst \in Nat /\ Len(Manifest) <= MaxInst
    /\ MaxPosts \in Nat

NoInst == 0     \* the local_provider of a remote service

VARIABLES
    inst,             \* the instances: component, status, times freed
    loaded,           \* g_node_ctx.loaded_info
    components,       \* the worker's components
    registry, count,  \* g_service_registry, g_service_count
    msg_queue,        \* the worker's ring: the services addressed
    wpc, at, cur, msg,    \* the worker: index, instance and message it is at
    cpc, target, again, todo,  \* the CLI: instance, reload, services left
    mpc, left,        \* main, and how many instances it has still to free
    keep_running, stop_requested,
    posted            \* what MaxPosts bounds

routing == <<registry, count>>
worker == <<wpc, at, cur, msg>>
cli == <<cpc, target, again, todo>>
main == <<mpc, left>>
ending == <<keep_running, stop_requested>>
vars == <<inst, loaded, components, routing, msg_queue, worker, cli, main, ending, posted>>

Instance(c) == [comp |-> c, status |-> "inited", freed |-> 0]
Entry(s, i) == [service |-> s, provider |-> i]

\* find_service_entry, when nobody changes the registry meanwhile; 0 is NULL.
EntryOf(s) == LET found == {i \in 1 .. count : registry[i].service = s}
              IN  IF found = {} THEN 0 ELSE CHOOSE i \in found : \A j \in found : i <= j

\* The positions in D one after the other, and what of a list is in S, in the
\* order of the list.
InOrder(D) == CHOOSE f \in [1 .. Cardinality(D) -> D] :
                  \A i, j \in DOMAIN f : i < j => f[i] < f[j]
Only(list, S) == LET f == InOrder({i \in DOMAIN list : list[i] \in S})
                 IN  [k \in DOMAIN f |-> list[f[k]]]

ServicesOf(c) == Only(ServiceList, {s \in Services : ProviderOf[s] = c})

\* node_init_workers and node_setup_routing, before any thread runs.  A
\* component that fails to load is left out, and its services with it.
Init ==
    \E ok \in SUBSET Comps :
        LET names == Only(Manifest, ok)
            routed == Only(ServiceList, {s \in Services : ProviderOf[s] \in ok \cup {Elsewhere}})
            ProviderAt(s) == IF ProviderOf[s] = Elsewhere THEN NoInst
                             ELSE CHOOSE i \in DOMAIN names : names[i] = ProviderOf[s]
        IN  /\ inst = [i \in DOMAIN names |-> Instance(names[i])]
            /\ loaded = [i \in DOMAIN names |-> i]
            /\ components = loaded
            /\ registry = [i \in 1 .. RegSize |->
                              IF i <= Len(routed) THEN Entry(routed[i], ProviderAt(routed[i]))
                              ELSE Entry("none", NoInst)]
            /\ count = Len(routed)
            /\ msg_queue = <<>>
            /\ wpc = "start" /\ at = 1 /\ cur = NoInst /\ msg = "none"
            /\ cpc = "idle" /\ target = NoInst /\ again = FALSE /\ todo = <<>>
            /\ mpc = "up" /\ left = 0
            /\ keep_running = TRUE /\ stop_requested = FALSE
            /\ posted = 0

-----------------------------------------------------------------------------
(* The worker: nos_scheduler_run_loop. *)

InLoop == UNCHANGED <<loaded, components, routing, cli, main, ending, posted>>

\* The components are started before the first iteration ...
StartNext ==
    /\ wpc = "start"
    /\ IF at > Len(components)
       THEN wpc' = "loop" /\ UNCHANGED <<at, cur>>
       ELSE IF inst[components[at]].status = "active"
       THEN at' = at + 1 /\ UNCHANGED <<wpc, cur>>
       ELSE wpc' = "starting" /\ cur' = components[at] /\ UNCHANGED at
    /\ UNCHANGED <<inst, msg_queue, msg>> /\ InLoop

\* A start() that fails, or is not there, leaves the component as it was; it is
\* "refused" here to tell it from one whose turn has not come.
Started ==
    /\ wpc = "starting" /\ wpc' = "start" /\ at' = at + 1
    /\ \E outcome \in {"active", "refused"} :
          inst' = [inst EXCEPT ![cur].status = outcome]
    /\ UNCHANGED <<cur, msg, msg_queue>> /\ InLoop

\* ... and here is where it ends, or turns to its messages.
LoopEnds ==
    /\ wpc = "loop" /\ stop_requested /\ wpc' = "exited"
    /\ UNCHANGED <<inst, msg_queue, at, cur, msg>> /\ InLoop

LoopTurns ==
    /\ wpc = "loop" /\ ~stop_requested /\ msg_queue # <<>> /\ wpc' = "drain"
    /\ UNCHANGED <<inst, msg_queue, at, cur, msg>> /\ InLoop

\* process_thread_messages, until the ring is empty: take a message, ...
Take ==
    /\ wpc = "drain"
    /\ IF msg_queue = <<>>
       THEN wpc' = "loop" /\ UNCHANGED <<msg_queue, at, msg>>
       ELSE /\ wpc' = "find" /\ at' = 1
            /\ msg' = Head(msg_queue) /\ msg_queue' = Tail(msg_queue)
    /\ UNCHANGED <<inst, cur>> /\ InLoop

\* ... search the registry for its service, entry by entry, ...
Find ==
    /\ wpc = "find"
    /\ IF at > count THEN wpc' = "drain" /\ UNCHANGED at
       ELSE IF registry[at].service = msg THEN wpc' = "found" /\ UNCHANGED at
       ELSE at' = at + 1 /\ UNCHANGED wpc
    /\ UNCHANGED <<inst, msg_queue, cur, msg>> /\ InLoop

\* ... and run the provider the entry has by then.
Call ==
    /\ wpc = "found"
    /\ IF registry[at].provider = NoInst THEN wpc' = "drain" /\ UNCHANGED cur
       ELSE wpc' = "running" /\ cur' = registry[at].provider
    /\ UNCHANGED <<inst, msg_queue, at, msg>> /\ InLoop

Return ==
    /\ wpc = "running" /\ wpc' = "drain"
    /\ UNCHANGED <<inst, msg_queue, at, cur, msg>> /\ InLoop

\* nos_service_msg_send and nos_transport_local_send, of any poster.
Post(s) ==
    /\ posted < MaxPosts /\ mpc \in {"up", "join_worker"}
    /\ EntryOf(s) # 0 /\ registry[EntryOf(s)].provider # NoInst
    /\ msg_queue' = Append(msg_queue, s) /\ posted' = posted + 1
    /\ UNCHANGED <<inst, loaded, components, routing, worker, cli, main, ending>>

Worker == StartNext \/ Started \/ LoopEnds \/ LoopTurns \/ Take \/ Find \/ Call \/ Return
-----------------------------------------------------------------------------
(* The CLI: node_cli_thread_entry and the commands it runs. *)

AtPrompt == UNCHANGED <<inst, loaded, components, routing, msg_queue, worker,
                        target, todo, main, stop_requested, posted>>

ReadLineAlways ==   \* faulty variant: the end of the node is not noticed
    /\ cpc = "idle" /\ cpc' = "reading"
    /\ UNCHANGED <<again, keep_running>> /\ AtPrompt

ReadLine ==
    /\ cpc = "idle" /\ cpc' = IF keep_running THEN "reading" ELSE "exited"
    /\ UNCHANGED <<again, keep_running>> /\ AtPrompt

\* A command that shows something, or names no loaded component; the end of
\* the input; quit.
OtherCommand ==
    /\ cpc = "reading" /\ cpc' \in {"idle", "exited"}
    /\ UNCHANGED <<again, keep_running>> /\ AtPrompt

Quit ==
    /\ cpc = "reading" /\ cpc' = "idle" /\ keep_running' = FALSE
    /\ UNCHANGED again /\ AtPrompt

\* node_unload_component, on its own or by node_reload_component (which load
\* calls as well): the component leaves its thread, ...
Unload(c) ==
    /\ cpc = "reading" /\ cpc' = "unroute"
    /\ \E i \in ToSet(loaded) : inst[i].comp = c /\ target' = i
    /\ \/ again' = FALSE
       \/ again' = TRUE /\ Len(inst) < MaxInst
    /\ components' = LET here == {k \in DOMAIN components : components[k] = target'}
                     IN  IF here = {} THEN components
                         ELSE Front([components EXCEPT
                                ![CHOOSE k \in here : TRUE] = Last(components)])
    /\ todo' = ServicesOf(c)
    /\ UNCHANGED <<inst, loaded, routing, msg_queue, worker, main, ending, posted>>

UnrouteLast ==   \* faulty variant: the last entry is dropped, not moved
    /\ cpc = "unroute" /\ todo # <<>> /\ todo' = Tail(todo)
    /\ count' = IF EntryOf(Head(todo)) = 0 THEN count ELSE count - 1
    /\ UNCHANGED <<inst, loaded, components, registry, msg_queue, worker, cpc, target, again,
                   main, ending, posted>>

\* ... its services the registry (nos_service_unregister_provider: the last
\* entry takes the place of the removed one), ...
Unroute ==
    /\ cpc = "unroute" /\ todo # <<>> /\ todo' = Tail(todo)
    /\ LET i == EntryOf(Head(todo)) IN
       IF i = 0 THEN UNCHANGED routing
       ELSE registry' = [registry EXCEPT ![i] = registry[count]] /\ count' = count - 1
    /\ UNCHANGED <<inst, loaded, components, msg_queue, worker, cpc, target, again,
                   main, ending, posted>>

FreeInst(i) == inst' = [inst EXCEPT ![i].freed = @ + 1]

\* ... and its memory is given back.
Free ==
    /\ cpc = "unroute" /\ todo = <<>>
    /\ cpc' = IF again THEN "load" ELSE "idle"
    /\ FreeInst(target)
    /\ loaded' = Only(loaded, ToSet(loaded) \ {target})
    /\ UNCHANGED <<components, routing, msg_queue, worker, target, again, todo,
                   main, ending, posted>>

\* node_reload_component goes on: a new instance, unless it fails to load, ...
Load ==
    /\ cpc = "load"
    /\ \/ cpc' = "idle" /\ UNCHANGED <<inst, loaded, target>>
       \/ /\ cpc' = "rehost" /\ target' = Len(inst) + 1
          /\ inst' = Append(inst, Instance(inst[target].comp))
          /\ loaded' = Append(loaded, target')
    /\ UNCHANGED <<components, routing, msg_queue, worker, again, todo,
                   main, ending, posted>>

\* ... joins the thread its predecessor had, ...
Rehost ==
    /\ cpc = "rehost" /\ cpc' = "rebind"
    /\ components' = Append(components, target)
    /\ todo' = ServicesOf(inst[target].comp)
    /\ UNCHANGED <<inst, loaded, routing, msg_queue, worker, target, again,
                   main, ending, posted>>

\* ... and provides its services (nos_service_register_provider_bind).
Rebind ==
    /\ cpc = "rebind"
    /\ IF todo = <<>> THEN cpc' = "idle" /\ UNCHANGED <<routing, todo>>
       ELSE LET i == EntryOf(Head(todo)) IN
            /\ todo' = Tail(todo) /\ UNCHANGED cpc
            /\ IF i = 0 /\ count >= RegSize THEN UNCHANGED routing
               ELSE /\ count' = IF i = 0 THEN count + 1 ELSE count
                    /\ registry' = [registry EXCEPT ![IF i = 0 THEN count' ELSE i] =
                                        Entry(Head(todo), target)]
    /\ UNCHANGED <<inst, loaded, components, msg_queue, worker, target, again,
                   main, ending, posted>>

Command == Unroute \/ Free \/ Load \/ Rehost \/ Rebind
-----------------------------------------------------------------------------
(* main, and the signal that ends it. *)

Signal ==
    /\ keep_running /\ keep_running' = FALSE
    /\ UNCHANGED <<inst, loaded, components, routing, msg_queue, worker, cli, main,
                   stop_requested, posted>>

StopAll ==
    /\ mpc = "up" /\ ~keep_running
    /\ mpc' = "join_worker" /\ stop_requested' = TRUE
    /\ UNCHANGED <<inst, loaded, components, routing, msg_queue, worker, cli, left,
                   keep_running, posted>>

JoinWorker ==
    /\ mpc = "join_worker" /\ wpc = "exited" /\ mpc' = "join_cli"
    /\ UNCHANGED <<inst, loaded, components, routing, msg_queue, worker, cli, left,
                   ending, posted>>

JoinCliUnasked ==   \* faulty variant: a CLI that is busy is not waited for
    /\ mpc = "join_cli" /\ mpc' = "clean"
    /\ left' = Len(loaded)
    /\ UNCHANGED <<inst, loaded, components, routing, msg_queue, worker, cli,
                   ending, posted>>

JoinCliBelow ==   \* faulty variant: starts one below the last
    /\ mpc = "join_cli" /\ cpc = "exited" /\ mpc' = "clean"
    /\ left' = Len(loaded) - 1
    /\ UNCHANGED <<inst, loaded, components, routing, msg_queue, worker, cli,
                   ending, posted>>

JoinCli ==
    /\ mpc = "join_cli" /\ cpc = "exited" /\ mpc' = "clean"
    /\ left' = Len(loaded)
    /\ UNCHANGED <<inst, loaded, components, routing, msg_queue, worker, cli,
                   ending, posted>>

CleanNext ==
    /\ mpc = "clean" /\ left > 0 /\ left' = left - 1
    /\ FreeInst(loaded[left])
    /\ UNCHANGED <<loaded, components, routing, msg_queue, worker, cli, mpc,
                   ending, posted>>

\* The threads' own memory goes last, with the messages nobody took.
Deinit ==
    /\ mpc = "clean" /\ left = 0 /\ mpc' = "done"
    /\ msg_queue' = <<>>
    /\ UNCHANGED <<inst, loaded, components, routing, worker, cli, left, ending, posted>>

Main == StopAll \/ JoinWorker \/ JoinCli \/ CleanNext \/ Deinit
-----------------------------------------------------------------------------
Operator == OtherCommand \/ Quit \/ (\E c \in Comps : Unload(c))

Next == \/ Worker \/ (\E s \in Services : Post(s))
        \/ ReadLine \/ Operator \/ Command
        \/ Signal \/ Main

\* The threads are scheduled; what the operator does is not assumed.
Fairness == WF_vars(Worker) /\ WF_vars(ReadLine \/ Command) /\ WF_vars(Main)

Spec == Init /\ [][Next]_vars /\ Fairness
-----------------------------------------------------------------------------
(* Properties. *)

\* Types of the node context, the registry and the threads' places.
TypeOK ==
    /\ inst \in Seq([comp : Comps, status : {"inited", "active", "refused"}, freed : Nat])
    /\ loaded \in Seq(1 .. MaxInst) /\ components \in Seq(1 .. MaxInst)
    /\ registry \in [1 .. RegSize -> [service : Services \cup {"none"}, provider : 0 .. MaxInst]]
    /\ count \in 0 .. RegSize
    /\ msg_queue \in Seq(Services)
    /\ wpc \in {"start", "starting", "loop", "drain", "find", "found", "running", "exited"}
    /\ at \in Nat /\ cur \in 0 .. MaxInst /\ msg \in Services \cup {"none"}
    /\ cpc \in {"idle", "reading", "unroute", "load", "rehost", "rebind", "exited"}
    /\ target \in 0 .. MaxInst /\ again \in BOOLEAN /\ todo \in Seq(Services)
    /\ mpc \in {"up", "join_worker", "join_cli", "clean", "done"} /\ left \in Nat
    /\ keep_running \in BOOLEAN /\ stop_requested \in BOOLEAN /\ posted \in 0 .. MaxPosts

\* the CLI is between two commands
AtRest == cpc \in {"idle", "reading", "exited"}

\* Between commands the four tables agree, after whatever sequence of loads,
\* failed loads, unloads and reloads: the worker hosts the loaded instances, a
\* local service is routed exactly when its provider is loaded, and to that
\* instance, a remote one always, and none has two entries
\* (node_unload_component, node_reload_component).
RoutesMatchLoaded ==
    AtRest =>
        /\ ToSet(components) = ToSet(loaded) /\ IsInjective(components)
        /\ \A i, j \in 1 .. count : registry[i].service = registry[j].service => i = j
        /\ \A s \in Services :
              IF ProviderOf[s] = Elsewhere
              THEN EntryOf(s) # 0 /\ registry[EntryOf(s)].provider = NoInst
              ELSE {i \in ToSet(loaded) : inst[i].comp = ProviderOf[s]} =
                   {registry[i].provider : i \in {j \in 1 .. count : registry[j].service = s}}

\* The memory of an instance is given back once, by the CLI or by main's
\* clean-up, all of it by the end, and never while a thread that main has not
\* joined still lists the instance.
FreedOnce ==
    \A i \in DOMAIN inst :
        /\ inst[i].freed <= 1
        /\ mpc = "done" => inst[i].freed = 1
        /\ inst[i].freed = 1 => i \notin ToSet(components) \/ mpc \in {"clean", "done"}

\* "Graceful shutdown" (nos_node_main.c:24): once the node is to end and the CLI
\* is not waiting for a line, main joins the threads and finishes.  A CLI that
\* waits for a line goes on waiting, and main with it (line 82).
ShutdownCompletes == (~keep_running /\ cpc # "reading") ~> (mpc = "done")

\* an instance made by a reload, on its thread
Reloaded(i) ==
    /\ i \in ToSet(components)
    /\ \E j \in 1 .. i - 1 : inst[j].comp = inst[i].comp

\* "run_loop will trigger start automatically in the next iteration"
\* (nos_node_mgr.c:179): the start of a reloaded instance is called, unless it
\* is unloaded or the node stops first.
ReloadedIsStarted ==
    \A i \in 1 .. MaxInst :
        (Reloaded(i) /\ ~stop_requested) ~>
            (~Reloaded(i) \/ stop_requested \/ inst[i].status # "inited")

=============================================================================
