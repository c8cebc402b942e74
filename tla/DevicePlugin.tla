---------------------------- MODULE DevicePlugin ----------------------------
(***************************************************************************)
(* The Kubernetes device plugin of nvshare (src/kubernetes/device-plugin): *)
(* main() in main.go, which starts, watches and restarts a plugin, and the *)
(* life cycle of a plugin in server.go, whose gRPC server runs in a        *)
(* goroutine of its own.                                                   *)
(*                                                                         *)
(* External: the kubelet, which empties the directory of device plugins    *)
(* when it starts, then creates its own socket, forgets its registrations, *)
(* and connects to a plugin some time after Register(); gRPC, whose        *)
(* blocking dial returns when the server at the other end answers, and     *)
(* whose Serve() and Stop() close the listener, which unlinks the path it  *)
(* was bound to; the DaemonSet, which starts the container again when the  *)
(* process fails.  Five seconds, the timeout of a dial, are enough for a   *)
(* goroutine to start and for a server that is there to answer.            *)
(***************************************************************************)
EXTENDS Naturals

CONSTANTS
    Slots,       \* bound: plugins whose goroutine exists at the same time
    MaxFaults    \* bound: kubelet restarts, signals, failures of system calls and of Register()

(* A plugin whose goroutine outlives it costs a fault or the first wipe *)
ASSUME SlotsAssumption == MaxFaults \in Nat /\ Slots \in Nat /\ Slots >= MaxFaults + 2

Plugins == 1 .. Slots

VARIABLES
    proc,              \* "running", "dead" (restarted by Kubernetes) or "exited"
    main,              \* where main() is
    cur,               \* devicePlugin, 0 for nil
    server,            \* server[i]: the field is not nil
    goroutine,         \* goroutine[i]: the one Serve() starts
    restartCount,      \* of each goroutine
    pluginStartError,  \* the channel is closed
    sigs,              \* the channel of signals, of capacity 1
    created,           \* events "kubelet.sock created" to be read
    path,              \* the plugin that listens on serverSock, 0 for none
    kubelet,           \* "up", "down", or "wiped" before its socket is there
    asked,             \* the kubelet has accepted a Register()
    stream,            \* the plugin the kubelet is connected to, 0 for none
    faults

pluginVars == <<cur, server, goroutine, restartCount, path, stream>>
kubeletVars == <<kubelet, asked>>
vars == <<proc, main, pluginVars, pluginStartError, sigs, created, kubeletVars, faults>>

PluginTypeOK ==
    /\ proc \in {"running", "dead", "exited"}
    /\ main \in {"restart", "start", "dial", "register", "events"}
    /\ cur \in 0 .. Slots
    /\ server \in [Plugins -> BOOLEAN]
    /\ goroutine \in [Plugins -> {"none", "start", "serving", "broken", "ended"}]
    /\ restartCount \in [Plugins -> 0 .. 6]
    /\ pluginStartError \in BOOLEAN
    /\ sigs \in {"none", "HUP", "TERM"}
    /\ created \in 0 .. MaxFaults + 1
    /\ path \in 0 .. Slots
    /\ kubelet \in {"up", "down", "wiped"}
    /\ asked \in BOOLEAN
    /\ stream \in 0 .. Slots
    /\ faults \in 0 .. MaxFaults

(* A process that has just started, with its watchers *)
Fresh ==
    [main |-> "restart", cur |-> 0, server |-> [i \in Plugins |-> FALSE],
     goroutine |-> [i \in Plugins |-> "none"], restartCount |-> [i \in Plugins |-> 0],
     pluginStartError |-> FALSE, sigs |-> "none", created |-> 0, path |-> 0, stream |-> 0]

PluginInit ==
    /\ proc = "running"
    /\ main = Fresh.main /\ cur = Fresh.cur
    /\ server = Fresh.server /\ goroutine = Fresh.goroutine
    /\ restartCount = Fresh.restartCount /\ pluginStartError = Fresh.pluginStartError
    /\ sigs = Fresh.sigs /\ created = Fresh.created
    /\ path = Fresh.path /\ stream = Fresh.stream
    /\ kubelet \in {"up", "down"}
    /\ asked = FALSE
    /\ faults = 0

Faults(n) == faults + n <= MaxFaults /\ faults' = faults + n

Fault == Faults(1)

Running == proc = "running"

-----------------------------------------------------------------------------
(* A plugin *)

(* Stop(), after n faults: nothing without a server; otherwise its           *)
(* connections end, the listener's path goes, Serve() returns nil and the    *)
(* goroutine breaks out of its loop (gRPC's Stop() waits for Serve()); then  *)
(* cleanup(), unless os.Remove() fails (nobody reads the error).             *)
Stop(n) ==
    IF cur = 0 \/ ~server[cur]
    THEN Faults(n) /\ UNCHANGED <<server, goroutine, path, stream>>
    ELSE /\ \/ Faults(n) /\ server' = [server EXCEPT ![cur] = FALSE]
            \/ Faults(n + 1) /\ UNCHANGED server
         /\ goroutine' = [goroutine EXCEPT ![cur] = IF @ = "serving" THEN "ended" ELSE @]
         /\ path' = 0
         /\ stream' = IF stream = cur THEN 0 ELSE stream

(* A slot that no goroutine uses any more *)
NewNvshareDevicePlugin == CHOOSE i \in Plugins : goroutine[i] \in {"none", "ended"}

(* main() stops the plugin it has *)
Restart ==
    /\ Running /\ main = "restart"
    /\ Stop(0)
    /\ main' = "start"
    /\ pluginStartError' = FALSE
    /\ UNCHANGED <<proc, cur, restartCount, sigs, created, kubeletVars>>

(* Start() and Serve() of a new plugin, up to the dial: the path is removed  *)
(* and bound, the goroutine started.                                         *)
Start ==
    /\ Running /\ main = "start"
    /\ LET i == NewNvshareDevicePlugin
       IN /\ cur' = i
          /\ server' = [server EXCEPT ![i] = TRUE]
          /\ goroutine' = [goroutine EXCEPT ![i] = "start"]
          /\ restartCount' = [restartCount EXCEPT ![i] = 0]
          /\ path' = i
    /\ main' = "dial"
    /\ UNCHANGED <<proc, stream, pluginStartError, sigs, created, kubeletVars, faults>>

(* net.Listen() fails; the old path is gone, and cleanup() leaves no server *)
ListenFails ==
    /\ Running /\ main = "start"
    /\ Fault
    /\ LET i == NewNvshareDevicePlugin
       IN cur' = i /\ server' = [server EXCEPT ![i] = FALSE]
    /\ path' = 0
    /\ pluginStartError' = TRUE
    /\ main' = "events"
    /\ UNCHANGED <<proc, goroutine, restartCount, stream, sigs, created, kubeletVars>>

(* Wrong variant: does not wait for the server's answer *)
DialedUnblocked == path = cur

(* The dial of the plugin's own socket, with WithBlock() *)
Dialed == path = cur /\ goroutine[cur] = "serving"

Dial ==
    /\ Running /\ main = "dial"
    /\ Dialed
    /\ main' = "register"
    /\ UNCHANGED <<proc, pluginVars, pluginStartError, sigs, created, kubeletVars, faults>>

(* The path has been taken away: the dial times out, and cleanup() ends a    *)
(* stream, by m.stop, but leaves the gRPC server running.                    *)
DialFails ==
    /\ Running /\ main = "dial"
    /\ path # cur /\ goroutine[cur] # "start"
    /\ server' = [server EXCEPT ![cur] = FALSE]
    /\ stream' = IF stream = cur THEN 0 ELSE stream
    /\ pluginStartError' = TRUE
    /\ main' = "events"
    /\ UNCHANGED <<proc, cur, goroutine, restartCount, path, sigs, created,
                   kubeletVars, faults>>

(* Register() *)
Register ==
    /\ Running /\ main = "register"
    /\ kubelet = "up"
    /\ asked' = TRUE
    /\ main' = "events"
    /\ UNCHANGED <<proc, pluginVars, pluginStartError, sigs, created, kubelet, faults>>

(* Wrong variant: tries again without looking at its channels *)
RegisterFailsRetries ==
    /\ Running /\ main = "register"
    /\ Stop(IF kubelet = "up" THEN 1 ELSE 0)
    /\ main' = "restart"
    /\ UNCHANGED <<proc, cur, restartCount, pluginStartError, sigs, created, kubeletVars>>

(* Register() fails: its dial times out, or the kubelet that is up refuses   *)
(* the call.  (A kubelet that takes it and never answers is left out.)       *)
RegisterFails ==
    /\ Running /\ main = "register"
    /\ Stop(IF kubelet = "up" THEN 1 ELSE 0)
    /\ pluginStartError' = TRUE
    /\ main' = "events"
    /\ UNCHANGED <<proc, cur, restartCount, sigs, created, kubeletVars>>

-----------------------------------------------------------------------------
(* The goroutine of plugin i: Serve() until it returns nil *)

Panic ==
    /\ proc' = "dead"
    /\ path' = 0
    /\ stream' = 0
    /\ UNCHANGED <<main, cur, server, goroutine, restartCount, pluginStartError, sigs, created,
                   kubeletVars, faults>>

(* m.server.Serve(sock), for the first time *)
ServeStarts(i) ==
    /\ Running /\ goroutine[i] = "start"
    /\ \/ /\ server[i]
          /\ goroutine' = [goroutine EXCEPT ![i] = "serving"]
          /\ UNCHANGED <<proc, main, cur, server, restartCount, path, stream, pluginStartError,
                         sigs, created, kubeletVars, faults>>
       \/ ~server[i] /\ Panic

(* accept() fails: Serve() closes the listener, whose path may be another's *)
AcceptFails(i) ==
    /\ Running /\ goroutine[i] = "serving"
    /\ Fault
    /\ goroutine' = [goroutine EXCEPT ![i] = "broken"]
    /\ path' = 0
    /\ UNCHANGED <<proc, main, cur, server, restartCount, stream, pluginStartError, sigs,
                   created, kubeletVars>>

(* Wrong variants: no limit; a count that starts over every time *)
ServeAgainUnlimited(i) ==
    /\ Running /\ goroutine[i] = "broken"
    /\ \/ ~server[i] /\ Panic
       \/ /\ server[i]
          /\ restartCount' = [restartCount EXCEPT ![i] = @ + 1]
          /\ UNCHANGED <<proc, main, cur, server, goroutine, path, stream, pluginStartError,
                         sigs, created, kubeletVars, faults>>

ServeAgainReset(i) ==
    /\ Running /\ goroutine[i] = "broken"
    /\ \/ ~server[i] /\ Panic
       \/ /\ server[i]
          /\ restartCount' = [restartCount EXCEPT ![i] = 1]
          /\ UNCHANGED <<proc, main, cur, server, goroutine, path, stream, pluginStartError,
                         sigs, created, kubeletVars, faults>>

(* Serve() has failed: count it and try again with the same, closed          *)
(* listener, which fails at once (the count, which starts over after an hour *)
(* without a failure, does not).                                             *)
ServeAgain(i) ==
    /\ Running /\ goroutine[i] = "broken"
    /\ \/ restartCount[i] > 5 /\ Panic
       \/ ~server[i] /\ Panic
       \/ /\ restartCount[i] <= 5 /\ server[i]
          /\ restartCount' = [restartCount EXCEPT ![i] = @ + 1]
          /\ UNCHANGED <<proc, main, cur, server, goroutine, path, stream, pluginStartError,
                         sigs, created, kubeletVars, faults>>

-----------------------------------------------------------------------------
(* The events of main() *)

OnStartError ==
    /\ Running /\ main = "events"
    /\ pluginStartError
    /\ main' = "restart"
    /\ UNCHANGED <<proc, pluginVars, pluginStartError, sigs, created, kubeletVars, faults>>

(* Wrong variant: the event is only logged *)
OnKubeletSocketIgnored ==
    /\ Running /\ main = "events"
    /\ created > 0
    /\ created' = created - 1
    /\ UNCHANGED <<proc, main, pluginVars, pluginStartError, sigs, kubeletVars, faults>>

OnKubeletSocket ==
    /\ Running /\ main = "events"
    /\ created > 0
    /\ created' = created - 1
    /\ main' = "restart"
    /\ UNCHANGED <<proc, pluginVars, pluginStartError, sigs, kubeletVars, faults>>

(* SIGHUP starts over, the others end the process *)
OnSignal ==
    /\ Running /\ main = "events"
    /\ sigs # "none"
    /\ sigs' = "none"
    /\ \/ /\ sigs = "HUP"
          /\ main' = "restart"
          /\ UNCHANGED <<proc, server, goroutine, path, stream, faults>>
       \/ /\ sigs = "TERM"
          /\ Stop(0)
          /\ proc' = "exited"
          /\ UNCHANGED main
    /\ UNCHANGED <<cur, restartCount, pluginStartError, created, kubeletVars>>

(* newOSWatcher(): a signal that finds the channel full is dropped *)
Signal(s) ==
    /\ Running
    /\ Fault
    /\ sigs' = IF sigs = "none" THEN s ELSE sigs
    /\ UNCHANGED <<proc, main, pluginVars, pluginStartError, created, kubeletVars>>

-----------------------------------------------------------------------------
(* The kubelet and the DaemonSet *)

KubeletStops ==
    /\ kubelet = "up"
    /\ Fault
    /\ kubelet' = "down"
    /\ asked' = FALSE
    /\ stream' = 0
    /\ UNCHANGED <<proc, main, cur, server, goroutine, restartCount, path, pluginStartError,
                   sigs, created>>

KubeletWipes ==
    /\ kubelet = "down"
    /\ kubelet' = "wiped"
    /\ path' = 0
    /\ UNCHANGED <<proc, main, cur, server, goroutine, restartCount, stream, pluginStartError,
                   sigs, created, asked, faults>>

(* The watcher of a process that runs sees it *)
KubeletListens ==
    /\ kubelet = "wiped"
    /\ kubelet' = "up"
    /\ created' = IF Running THEN created + 1 ELSE created
    /\ UNCHANGED <<proc, main, pluginVars, pluginStartError, sigs, asked, faults>>

(* After Register() the kubelet connects, or gives up *)
KubeletConnects ==
    /\ asked
    /\ \/ path # 0 /\ goroutine[path] = "serving" /\ stream' = path
       \/ path = 0 /\ UNCHANGED stream
    /\ asked' = FALSE
    /\ UNCHANGED <<proc, main, cur, server, goroutine, restartCount, path, pluginStartError,
                   sigs, created, kubelet, faults>>

ContainerRestarts ==
    /\ proc = "dead"
    /\ proc' = "running"
    /\ main' = Fresh.main /\ cur' = Fresh.cur
    /\ server' = Fresh.server /\ goroutine' = Fresh.goroutine
    /\ restartCount' = Fresh.restartCount /\ pluginStartError' = Fresh.pluginStartError
    /\ sigs' = Fresh.sigs /\ created' = Fresh.created
    /\ path' = Fresh.path /\ stream' = Fresh.stream
    /\ UNCHANGED <<kubeletVars, faults>>

-----------------------------------------------------------------------------
MainNext ==
    \/ Restart \/ Start \/ ListenFails \/ Dial \/ DialFails \/ Register \/ RegisterFails
    \/ OnStartError \/ OnKubeletSocket \/ OnSignal

ServeNext(i) == ServeStarts(i) \/ ServeAgain(i)

PluginNext ==
    \/ MainNext
    \/ \E i \in Plugins : ServeNext(i) \/ AcceptFails(i)
    \/ \E s \in {"HUP", "TERM"} : Signal(s)
    \/ KubeletStops \/ KubeletWipes \/ KubeletListens \/ KubeletConnects
    \/ ContainerRestarts

(* main() and the goroutines go on, and select() chooses among the channels  *)
(* that are ready at random, so none of them is passed over for ever.  The   *)
(* kubelet connects, and Kubernetes restarts the container; a kubelet that   *)
(* is down may stay so.                                                      *)
PluginSpec ==
    /\ PluginInit /\ [][PluginNext]_vars
    /\ WF_vars(MainNext)
    /\ SF_vars(OnKubeletSocket) /\ SF_vars(OnSignal)
    /\ \A i \in Plugins : WF_vars(ServeNext(i))
    /\ WF_vars(KubeletConnects) /\ WF_vars(ContainerRestarts)

-----------------------------------------------------------------------------
(* Properties *)

(* main() has nothing to react to, and no goroutine is about to fail *)
Quiet ==
    /\ Running /\ main = "events"
    /\ ~pluginStartError /\ created = 0 /\ sigs = "none"
    /\ \A i \in Plugins : goroutine[i] # "broken"

(* When main() waits for events and none is pending, nothing is missed: the  *)
(* socket file leads to the current plugin, whose goroutine runs, and a      *)
(* kubelet that is up is connected to it or about to be.  Neither a kubelet  *)
(* that restarts and wipes the directory in the middle of Start() nor a      *)
(* server that cleanup() left behind, whose listener still knows the path,   *)
(* breaks it.                                                                *)
Advertised ==
    Quiet /\ kubelet = "up" =>
        /\ cur # 0 /\ path = cur
        /\ goroutine[cur] \in {"start", "serving"}
        /\ asked \/ stream = cur

(* A goroutine finds its server when it starts: main() does not get to Stop()*)
(* or cleanup(), which set m.server to nil, before Serve() is running.       *)
ServerWhenStarted == \A i \in Plugins : Running /\ goroutine[i] = "start" => server[i]

(* Under a kubelet that stays up, the node gets its devices, whatever        *)
(* happened before: restarts of the kubelet at any point, signals, failures  *)
(* to listen, register or serve, crashes.                                    *)
Available ==
    kubelet = "up" ~> \/ stream = cur /\ path = cur /\ main = "events"
                      \/ kubelet # "up" \/ proc = "exited"

(* A signal to end that main() has got ends it, although it may be in a loop *)
(* of starts that fail.                                                      *)
Terminates == sigs = "TERM" ~> proc # "running"
=============================================================================
