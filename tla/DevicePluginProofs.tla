------------------------- MODULE DevicePluginProofs -------------------------
(***************************************************************************)
(* Proofs about the Kubernetes device plugin, for any number of faults:    *)
(* restarts of the kubelet, signals, failures of system calls and calls.   *)
(***************************************************************************)
EXTENDS DevicePlugin, FiniteSetTheorems, TLAPS

(* main() has the plugin and its server, and does not forget them next *)
Current(i) == i = cur /\ main # "start" /\ server[i]

(* The server of a plugin that main() has forgotten is nil or stopped *)
ServersOK ==
    \A i \in Plugins : server[i] =>
        /\ Current(i) \/ goroutine[i] \in {"broken", "ended"}
        /\ goroutine[i] # "none"

(* Where main() is in Start(), and how far the goroutine may be *)
MainOK ==
    /\ \A i \in Plugins : goroutine[i] = "start" => i = cur /\ server[i] /\ main = "dial"
    /\ main \in {"dial", "register"} => cur \in Plugins /\ server[cur]
    /\ main = "dial" => goroutine[cur] \in {"start", "serving", "broken"}
    /\ main = "register" => goroutine[cur] \in {"serving", "broken"}

(* Goroutines that outlive their plugin: the process has them for ever *)
Lingering ==
    {i \in Plugins : goroutine[i] \in {"serving", "broken"} /\ ~Current(i)}

(* The current plugin is going to leave one: its goroutine fails, or its     *)
(* dial is going to                                                          *)
Leaves ==
    /\ cur # 0 /\ Current(cur)
    /\ goroutine[cur] = "broken" \/ (main = "dial" /\ path # cur)

One(b) == IF b THEN 1 ELSE 0

(* Each of them costs a fault, or the wipe of a kubelet that starts *)
BudgetOK == Cardinality(Lingering) + One(Leaves) + One(kubelet = "down") <= faults + 1

CreatedOK == created + One(kubelet # "up") <= faults + 1

(* main() has no event that makes it start over *)
NothingPending ==
    /\ pluginStartError = FALSE /\ created = 0
    /\ \A i \in Plugins : goroutine[i] # "broken"

(* From the dial on the path is the current plugin's, unless a kubelet that  *)
(* restarts has taken it and is going to say so                              *)
PathOK ==
    main \in {"register", "events"} /\ NothingPending /\ kubelet # "wiped" =>
        /\ cur # 0 /\ path = cur /\ goroutine[cur] = "serving"
        /\ main = "events" /\ kubelet = "up" => asked \/ stream = cur

RunningOK == ServersOK /\ MainOK /\ BudgetOK /\ PathOK

PInv == PluginTypeOK /\ CreatedOK /\ (Running => RunningOK)

-----------------------------------------------------------------------------
LEMMA Shrinks ==
    ASSUME NEW S, IsFiniteSet(S), NEW T, T \subseteq S
    PROVE  Cardinality(T) \in Nat /\ Cardinality(S) \in Nat /\ Cardinality(T) <= Cardinality(S)
<1>1. IsFiniteSet(T) /\ Cardinality(T) <= Cardinality(S)
  BY FS_Subset
<1>2. QED
  BY <1>1, FS_CardinalityType

LEMMA GrowsByOne ==
    ASSUME NEW S, IsFiniteSet(S), NEW x, NEW T, T \subseteq S \cup {x}
    PROVE  Cardinality(T) \in Nat /\ Cardinality(S) \in Nat /\ Cardinality(T) <= Cardinality(S) + 1
<1>1. IsFiniteSet(S \cup {x})
  BY FS_AddElement
<1>2. Cardinality(T) \in Nat /\ Cardinality(T) <= Cardinality(S \cup {x})
  BY <1>1, FS_Subset, FS_CardinalityType
<1>3. Cardinality(S \cup {x}) <= Cardinality(S) + 1 /\ Cardinality(S) \in Nat
  BY FS_AddElement, FS_CardinalityType
<1>4. Cardinality(S \cup {x}) \in Nat
  BY <1>1, FS_CardinalityType
<1>5. QED
  BY <1>2, <1>3, <1>4

LEMMA LingeringFinite == IsFiniteSet(Lingering) /\ Cardinality(Lingering) \in Nat
<1>1. IsFiniteSet(Plugins)
  BY FS_Interval, SlotsAssumption DEF Plugins
<1>2. Lingering \subseteq Plugins
  BY DEF Lingering
<1>3. QED
  BY <1>1, <1>2, FS_Subset, FS_CardinalityType

LEMMA OneFacts ==
    /\ One(TRUE) = 1 /\ One(FALSE) = 0
    /\ \A b \in BOOLEAN : One(b) \in {0, 1}
BY DEF One

(* There is a slot for a new plugin: fewer goroutines linger than there are  *)
(* slots                                                                     *)
LEMMA NewPluginExists ==
    ASSUME PInv, Running, main = "start"
    PROVE  /\ NewNvshareDevicePlugin \in Plugins
           /\ goroutine[NewNvshareDevicePlugin] \in {"none", "ended"}
<1>1. \E i \in Plugins : goroutine[i] \in {"none", "ended"}
  <2>1. SUFFICES ASSUME \A i \in Plugins : goroutine[i] \notin {"none", "ended"} PROVE FALSE
    OBVIOUS
  <2>2. \A i \in Plugins : goroutine[i] \in {"serving", "broken"} /\ ~Current(i)
    BY <2>1 DEF PInv, PluginTypeOK, RunningOK, MainOK, Current
  <2>3. Lingering = Plugins
    BY <2>2 DEF Lingering
  <2>4. Cardinality(Plugins) = Slots
    BY FS_Interval, SlotsAssumption DEF Plugins
  <2>5. BudgetOK /\ faults \in 0 .. MaxFaults
    BY DEF PInv, RunningOK, PluginTypeOK
  <2>6. One(Leaves) >= 0 /\ One(kubelet = "down") >= 0 /\ One(Leaves) \in Nat /\ One(kubelet = "down") \in Nat
    BY DEF One
  <2>7. Slots + One(Leaves) + One(kubelet = "down") <= faults + 1
    BY <2>3, <2>4, <2>5 DEF BudgetOK
  <2>8. QED
    BY <2>5, <2>6, <2>7, SlotsAssumption
<1>2. QED
  BY <1>1 DEF NewNvshareDevicePlugin

(* A process that has just started has nothing yet *)
LEMMA FreshOK ==
    ASSUME main = Fresh.main, cur = Fresh.cur, server = Fresh.server,
           goroutine = Fresh.goroutine, path = Fresh.path, faults \in Nat
    PROVE  RunningOK
<1>1. /\ main = "restart" /\ cur = 0 /\ server = [i \in Plugins |-> FALSE]
      /\ goroutine = [i \in Plugins |-> "none"] /\ path = 0
  BY DEF Fresh
<1>2. ServersOK /\ MainOK /\ PathOK
  BY <1>1 DEF ServersOK, MainOK, PathOK
<1>3. Lingering = {} /\ Leaves = FALSE
  BY <1>1 DEF Lingering, Leaves
<1>4. Cardinality(Lingering) = 0
  BY <1>3, FS_EmptySet
<1>5. One(Leaves) = 0 /\ One(kubelet = "down") \in {0, 1}
  BY <1>3 DEF One
<1>6. BudgetOK
  BY <1>4, <1>5 DEF BudgetOK
<1>7. QED
  BY <1>2, <1>6 DEF RunningOK

LEMMA InitPInv == PluginInit => PInv
<1> SUFFICES ASSUME PluginInit PROVE PInv
  OBVIOUS
<1>1. /\ main = Fresh.main /\ cur = Fresh.cur /\ server = Fresh.server
      /\ goroutine = Fresh.goroutine /\ path = Fresh.path /\ faults = 0
  BY DEF PluginInit
<1>2. RunningOK
  BY <1>1, FreshOK
<1>3. /\ main = "restart" /\ cur = 0 /\ server = [i \in Plugins |-> FALSE]
      /\ goroutine = [i \in Plugins |-> "none"] /\ path = 0
      /\ restartCount = [i \in Plugins |-> 0] /\ pluginStartError = FALSE
      /\ sigs = "none" /\ created = 0 /\ stream = 0
      /\ kubelet \in {"up", "down"} /\ asked = FALSE /\ faults = 0 /\ proc = "running"
  BY DEF PluginInit, Fresh
<1>4. PluginTypeOK
  <2>1. pluginStartError \in BOOLEAN /\ asked \in BOOLEAN
    BY <1>3, Zenon
  <2>2. QED
    BY <1>3, <2>1, SlotsAssumption DEF PluginTypeOK
<1>5. CreatedOK
  BY <1>3 DEF CreatedOK, One
<1>6. QED
  BY <1>2, <1>4, <1>5 DEF PInv

(* What Stop() leaves *)
LEMMA StopEffect ==
    ASSUME PluginTypeOK, NEW n \in Nat, Stop(n)
    PROVE  /\ server' \in [Plugins -> BOOLEAN] /\ \A i \in Plugins : server'[i] => server[i]
           /\ goroutine' \in [Plugins -> {"none", "start", "serving", "broken", "ended"}]
           /\ \A i \in Plugins :
                 \/ goroutine'[i] = goroutine[i]
                 \/ i = cur /\ goroutine[i] = "serving" /\ goroutine'[i] = "ended"
           /\ \A i \in Plugins :
                 i = cur /\ server[i] => goroutine'[i] # "serving"
           /\ path' \in {0, path} /\ stream' \in {0, stream}
           /\ faults' \in faults .. MaxFaults
<1>0. /\ server \in [Plugins -> BOOLEAN]
      /\ goroutine \in [Plugins -> {"none", "start", "serving", "broken", "ended"}]
      /\ cur \in 0 .. Slots /\ Plugins = 1 .. Slots /\ Slots \in Nat
      /\ faults \in 0 .. MaxFaults /\ MaxFaults \in Nat
  BY SlotsAssumption DEF PluginTypeOK, Plugins
<1>1. CASE cur = 0 \/ ~server[cur]
  <2>1. UNCHANGED <<server, goroutine, path, stream>> /\ Faults(n)
    BY <1>1 DEF Stop
  <2>2. faults' \in faults .. MaxFaults
    BY <1>0, <2>1 DEF Faults
  <2>3. QED
    BY <1>0, <1>1, <2>1, <2>2
<1>2. CASE ~(cur = 0 \/ ~server[cur])
  <2>1. /\ server' = [server EXCEPT ![cur] = FALSE] \/ server' = server
        /\ goroutine' = [goroutine EXCEPT ![cur] = IF @ = "serving" THEN "ended" ELSE @]
        /\ path' = 0 /\ stream' = IF stream = cur THEN 0 ELSE stream
        /\ Faults(n) \/ Faults(n + 1)
    BY <1>2 DEF Stop
  <2>2. cur \in Plugins
    BY <1>0, <1>2
  <2>3. faults' \in faults .. MaxFaults
    BY <1>0, <2>1 DEF Faults
  <2>4. server' \in [Plugins -> BOOLEAN] /\ \A i \in Plugins : server'[i] => server[i]
    BY <1>0, <2>1, <2>2
  <2>5. QED
    BY <1>0, <2>1, <2>2, <2>3, <2>4
<1>3. QED
  BY <1>1, <1>2

(* Stop() may leave the goroutine behind, if it was going to stay *)
LEMMA StopBudget ==
    ASSUME PInv, Running, main \notin {"dial", "start"}, main' # "dial", NEW n \in Nat, Stop(n),
           UNCHANGED <<cur, kubelet>>
    PROVE  BudgetOK'
<1>1. PluginTypeOK /\ ServersOK /\ MainOK /\ BudgetOK
  BY DEF PInv, RunningOK
<1>2. /\ \A i \in Plugins : server'[i] => server[i]
      /\ \A i \in Plugins :
            \/ goroutine'[i] = goroutine[i]
            \/ i = cur /\ goroutine[i] = "serving" /\ goroutine'[i] = "ended"
      /\ \A i \in Plugins : i = cur /\ server[i] => goroutine'[i] # "serving"
      /\ faults' \in faults .. MaxFaults
  BY <1>1, StopEffect
<1>3. /\ cur \in 0 .. Slots /\ Plugins = 1 .. Slots /\ Slots \in Nat
      /\ faults \in Nat /\ MaxFaults \in Nat
      /\ faults' \in Nat /\ faults' >= faults
  BY <1>1, <1>2, SlotsAssumption DEF PluginTypeOK, Plugins
<1>4. Leaves' => Leaves /\ cur \notin Lingering'
  BY <1>2, <1>3 DEF Leaves, Current, Lingering
<1>5. ASSUME NEW i \in Plugins, i \in Lingering', i \notin Lingering
      PROVE  i = cur /\ Leaves
  <2>1. goroutine'[i] \in {"serving", "broken"} /\ goroutine[i] = goroutine'[i]
    BY <1>2, <1>5 DEF Lingering
  <2>2. i = cur /\ main # "start" /\ server[i]
    BY <1>5, <2>1 DEF Lingering, Current
  <2>3. goroutine[cur] = "broken" /\ cur # 0
    BY <1>2, <1>3, <2>1, <2>2
  <2>4. QED
    BY <2>2, <2>3 DEF Leaves, Current
<1>6. CASE Leaves /\ ~Leaves'
  <2>1. Lingering' \subseteq Lingering \cup {cur}
    BY <1>5 DEF Lingering
  <2>2. /\ Cardinality(Lingering') \in Nat /\ Cardinality(Lingering) \in Nat
        /\ Cardinality(Lingering') <= Cardinality(Lingering) + 1
    BY <2>1, LingeringFinite, GrowsByOne
  <2>3. Cardinality(Lingering) + 1 + One(kubelet = "down") <= faults + 1
    BY <1>1, <1>6 DEF BudgetOK, One
  <2>4. QED
    BY <1>3, <1>6, <2>2, <2>3 DEF BudgetOK, One
<1>7. CASE ~(Leaves /\ ~Leaves')
  <2>1. Lingering' \subseteq Lingering
    BY <1>4, <1>5, <1>7 DEF Lingering
  <2>2. /\ Cardinality(Lingering') \in Nat /\ Cardinality(Lingering) \in Nat
        /\ Cardinality(Lingering') <= Cardinality(Lingering)
    BY <2>1, LingeringFinite, Shrinks
  <2>3. QED
    BY <1>1, <1>3, <1>4, <2>2 DEF BudgetOK, One
<1>8. QED
  BY <1>6, <1>7

(* Every step keeps the types, and counts the events it makes *)
LEMMA TypeStep ==
    ASSUME PInv, [PluginNext]_vars
    PROVE  PluginTypeOK' /\ CreatedOK'
<1> DEFINE Gor == {"none", "start", "serving", "broken", "ended"}
<1>0. /\ PluginTypeOK /\ CreatedOK /\ MaxFaults \in Nat /\ Slots \in Nat /\ Plugins = 1 .. Slots
      /\ faults \in 0 .. MaxFaults /\ created \in 0 .. MaxFaults + 1
  BY SlotsAssumption DEF PInv, PluginTypeOK, Plugins
<1>1. ASSUME UNCHANGED <<created, kubelet>>, faults' = faults \/ Fault \/ faults' \in faults .. MaxFaults
      PROVE  CreatedOK' /\ faults' \in 0 .. MaxFaults
  BY <1>0, <1>1 DEF CreatedOK, Fault, Faults, One
<1>2. ASSUME NEW n \in Nat, Stop(n)
      PROVE  /\ server' \in [Plugins -> BOOLEAN] /\ goroutine' \in [Plugins -> Gor]
             /\ path' \in 0 .. Slots /\ stream' \in 0 .. Slots
             /\ faults' \in faults .. MaxFaults
  <2>1. /\ server' \in [Plugins -> BOOLEAN] /\ goroutine' \in [Plugins -> Gor]
        /\ path' \in {0, path} /\ stream' \in {0, stream}
        /\ faults' \in faults .. MaxFaults
    BY <1>0, <1>2, StopEffect
  <2>2. path \in 0 .. Slots /\ stream \in 0 .. Slots
    BY <1>0 DEF PluginTypeOK
  <2>3. QED
    BY <1>0, <2>1, <2>2
<1>4. CASE Restart
  <2>2. /\ server' \in [Plugins -> BOOLEAN] /\ goroutine' \in [Plugins -> Gor]
        /\ path' \in 0 .. Slots /\ stream' \in 0 .. Slots /\ faults' \in faults .. MaxFaults
    BY <1>2, <1>4 DEF Restart
  <2>1. CreatedOK' /\ faults' \in 0 .. MaxFaults
    BY <1>1, <1>4, <2>2 DEF Restart, kubeletVars
  <2>3. pluginStartError' \in BOOLEAN
    BY <1>4, Zenon DEF Restart
  <2>4. QED
    BY <1>0, <1>4, <2>1, <2>2, <2>3 DEF Restart, kubeletVars, PluginTypeOK
<1>5. CASE Start
  <2>1. CreatedOK' /\ faults' \in 0 .. MaxFaults
    BY <1>1, <1>5 DEF Start, kubeletVars
  <2>2. PICK i \in Plugins : i = NewNvshareDevicePlugin
    BY <1>5, NewPluginExists DEF Start
  <2>3. /\ cur' = i /\ path' = i /\ server' = [server EXCEPT ![i] = TRUE]
        /\ goroutine' = [goroutine EXCEPT ![i] = "start"]
        /\ restartCount' = [restartCount EXCEPT ![i] = 0]
        /\ main' = "dial"
        /\ UNCHANGED <<proc, stream, pluginStartError, sigs, created, kubelet, asked, faults>>
    BY <1>5, <2>2 DEF Start, kubeletVars
  <2>4. QED
    BY <1>0, <2>1, <2>2, <2>3 DEF PluginTypeOK
<1>6. CASE ListenFails
  <2>1. CreatedOK' /\ faults' \in 0 .. MaxFaults
    BY <1>1, <1>6 DEF ListenFails, kubeletVars
  <2>2. PICK i \in Plugins : i = NewNvshareDevicePlugin
    BY <1>6, NewPluginExists DEF ListenFails
  <2>3. /\ cur' = i /\ path' = 0 /\ server' = [server EXCEPT ![i] = FALSE]
        /\ main' = "events"
        /\ UNCHANGED <<proc, goroutine, restartCount, stream, sigs, created, kubelet, asked>>
    BY <1>6, <2>2 DEF ListenFails, kubeletVars
  <2>4. pluginStartError' \in BOOLEAN
    BY <1>6, Zenon DEF ListenFails
  <2>5. QED
    BY <1>0, <2>1, <2>2, <2>3, <2>4 DEF PluginTypeOK
<1>7. CASE Dial \/ OnStartError
  <2>1. CreatedOK' /\ faults' \in 0 .. MaxFaults
    BY <1>1, <1>7 DEF Dial, OnStartError, kubeletVars
  <2>2. QED
    BY <1>0, <1>7, <2>1 DEF Dial, OnStartError, kubeletVars, pluginVars, PluginTypeOK
<1>8. CASE DialFails
  <2>1. CreatedOK' /\ faults' \in 0 .. MaxFaults
    BY <1>1, <1>8 DEF DialFails, kubeletVars
  <2>2. pluginStartError' \in BOOLEAN
    BY <1>8, Zenon DEF DialFails
  <2>3. stream' \in 0 .. Slots
    BY <1>0, <1>8 DEF DialFails, PluginTypeOK
  <2>4. QED
    BY <1>0, <1>8, <2>1, <2>2, <2>3 DEF DialFails, kubeletVars, PluginTypeOK
<1>9. CASE Register
  <2>1. CreatedOK' /\ faults' \in 0 .. MaxFaults
    BY <1>1, <1>9 DEF Register
  <2>2. asked' \in BOOLEAN
    BY <1>9, Zenon DEF Register
  <2>3. QED
    BY <1>0, <1>9, <2>1, <2>2 DEF Register, pluginVars, PluginTypeOK
<1>10. CASE RegisterFails
  <2>0. PICK n \in Nat : Stop(n)
    BY <1>10 DEF RegisterFails
  <2>2. /\ server' \in [Plugins -> BOOLEAN] /\ goroutine' \in [Plugins -> Gor]
        /\ path' \in 0 .. Slots /\ stream' \in 0 .. Slots /\ faults' \in faults .. MaxFaults
    BY <1>2, <2>0
  <2>1. CreatedOK' /\ faults' \in 0 .. MaxFaults
    BY <1>1, <1>10, <2>2 DEF RegisterFails, kubeletVars
  <2>3. pluginStartError' \in BOOLEAN
    BY <1>10, Zenon DEF RegisterFails
  <2>4. QED
    BY <1>0, <1>10, <2>1, <2>2, <2>3 DEF RegisterFails, kubeletVars, PluginTypeOK
<1>11. CASE OnKubeletSocket
  BY <1>0, <1>11 DEF OnKubeletSocket, pluginVars, kubeletVars, PluginTypeOK, CreatedOK, One
<1>12. CASE OnSignal
  <2>2. /\ server' \in [Plugins -> BOOLEAN] /\ goroutine' \in [Plugins -> Gor]
        /\ path' \in 0 .. Slots /\ stream' \in 0 .. Slots /\ faults' \in faults .. MaxFaults
    <3>1. CASE Stop(0)
      BY <1>2, <3>1
    <3>2. CASE ~Stop(0)
      BY <1>0, <1>12, <3>2 DEF OnSignal, PluginTypeOK
    <3>3. QED
      BY <3>1, <3>2
  <2>1. CreatedOK' /\ faults' \in 0 .. MaxFaults
    BY <1>1, <1>12, <2>2 DEF OnSignal, kubeletVars
  <2>3. QED
    BY <1>0, <1>12, <2>1, <2>2 DEF OnSignal, kubeletVars, PluginTypeOK
<1>13. ASSUME NEW s \in {"HUP", "TERM"}, Signal(s) PROVE PluginTypeOK' /\ CreatedOK'
  <2>1. CreatedOK' /\ faults' \in 0 .. MaxFaults
    BY <1>1, <1>13 DEF Signal, kubeletVars
  <2>2. QED
    BY <1>0, <1>13, <2>1 DEF Signal, pluginVars, kubeletVars, PluginTypeOK
<1>14. ASSUME Panic PROVE PluginTypeOK' /\ CreatedOK'
  <2>1. CreatedOK' /\ faults' \in 0 .. MaxFaults
    BY <1>1, <1>14 DEF Panic, kubeletVars
  <2>2. QED
    BY <1>0, <1>14, <2>1 DEF Panic, kubeletVars, PluginTypeOK
<1>15. ASSUME NEW i \in Plugins, ServeStarts(i) PROVE PluginTypeOK' /\ CreatedOK'
  <2>1. CASE Panic
    BY <1>14, <2>1
  <2>2. CASE ~Panic
    <3>1. CreatedOK' /\ faults' \in 0 .. MaxFaults
      BY <1>1, <1>15, <2>2 DEF ServeStarts, kubeletVars
    <3>2. QED
      BY <1>0, <1>15, <2>2, <3>1 DEF ServeStarts, kubeletVars, PluginTypeOK
  <2>3. QED
    BY <2>1, <2>2
<1>16. ASSUME NEW i \in Plugins, ServeAgain(i) PROVE PluginTypeOK' /\ CreatedOK'
  <2>1. CASE Panic
    BY <1>14, <2>1
  <2>2. CASE ~Panic
    <3>1. CreatedOK' /\ faults' \in 0 .. MaxFaults
      BY <1>1, <1>16, <2>2 DEF ServeAgain, kubeletVars
    <3>2. restartCount' \in [Plugins -> 0 .. 6]
      BY <1>0, <1>16, <2>2 DEF ServeAgain, PluginTypeOK
    <3>3. QED
      BY <1>0, <1>16, <2>2, <3>1, <3>2 DEF ServeAgain, kubeletVars, PluginTypeOK
  <2>3. QED
    BY <2>1, <2>2
<1>17. ASSUME NEW i \in Plugins, AcceptFails(i) PROVE PluginTypeOK' /\ CreatedOK'
  <2>1. CreatedOK' /\ faults' \in 0 .. MaxFaults
    BY <1>1, <1>17 DEF AcceptFails, kubeletVars
  <2>2. QED
    BY <1>0, <1>17, <2>1 DEF AcceptFails, kubeletVars, PluginTypeOK
<1>18. CASE KubeletStops
  <2>1. CreatedOK' /\ faults' \in 0 .. MaxFaults
    BY <1>0, <1>18 DEF KubeletStops, Fault, Faults, CreatedOK, One
  <2>2. asked' \in BOOLEAN
    BY <1>18, Zenon DEF KubeletStops
  <2>3. QED
    BY <1>0, <1>18, <2>1, <2>2 DEF KubeletStops, PluginTypeOK
<1>19. CASE KubeletWipes
  BY <1>0, <1>19 DEF KubeletWipes, PluginTypeOK, CreatedOK, One
<1>20. CASE KubeletListens
  <2>1. CreatedOK' /\ created' \in 0 .. MaxFaults + 1
    BY <1>0, <1>20 DEF KubeletListens, CreatedOK, One
  <2>2. QED
    BY <1>0, <1>20, <2>1 DEF KubeletListens, pluginVars, PluginTypeOK
<1>21. CASE KubeletConnects
  <2>1. CreatedOK' /\ faults' \in 0 .. MaxFaults
    BY <1>1, <1>21 DEF KubeletConnects
  <2>2. asked' \in BOOLEAN
    BY <1>21, Zenon DEF KubeletConnects
  <2>3. stream' \in 0 .. Slots
    BY <1>0, <1>21 DEF KubeletConnects, PluginTypeOK
  <2>4. QED
    BY <1>0, <1>21, <2>1, <2>2, <2>3 DEF KubeletConnects, PluginTypeOK
<1>22. CASE ContainerRestarts
  <2>1. /\ main' = "restart" /\ cur' = 0 /\ server' = [i \in Plugins |-> FALSE]
        /\ goroutine' = [i \in Plugins |-> "none"] /\ path' = 0
        /\ restartCount' = [i \in Plugins |-> 0] /\ pluginStartError' = FALSE
        /\ sigs' = "none" /\ created' = 0 /\ stream' = 0 /\ proc' = "running"
        /\ UNCHANGED <<kubelet, asked, faults>>
    BY <1>22 DEF ContainerRestarts, Fresh, kubeletVars
  <2>2. pluginStartError' \in BOOLEAN
    BY <2>1, Zenon
  <2>3. PluginTypeOK'
    BY <1>0, <2>1, <2>2 DEF PluginTypeOK
  <2>4. CreatedOK'
    BY <1>0, <2>1 DEF CreatedOK, One
  <2>5. QED
    BY <2>3, <2>4
<1>23. CASE UNCHANGED vars
  BY <1>0, <1>23 DEF vars, pluginVars, kubeletVars, PluginTypeOK, CreatedOK, One
<1>24. QED
  BY <1>4, <1>5, <1>6, <1>7, <1>8, <1>9, <1>10, <1>11, <1>12, <1>13, <1>15, <1>16, <1>17,
     <1>18, <1>19, <1>20, <1>21, <1>22, <1>23 DEF PluginNext, MainNext, ServeNext

(* The goroutines of a process that goes on.  The budget first. *)
LEMMA BudgetStep ==
    ASSUME PInv, Running, Running', PluginNext
    PROVE  BudgetOK'
<1>0. /\ PluginTypeOK /\ ServersOK /\ MainOK /\ BudgetOK
      /\ MaxFaults \in Nat /\ Slots \in Nat /\ Plugins = 1 .. Slots
      /\ faults \in Nat /\ Cardinality(Lingering) \in Nat
      /\ cur \in 0 .. Slots
      /\ server \in [Plugins -> BOOLEAN]
      /\ goroutine \in [Plugins -> {"none", "start", "serving", "broken", "ended"}]
  BY SlotsAssumption, LingeringFinite DEF PInv, PluginTypeOK, RunningOK, Plugins
<1>1. ASSUME Lingering' \subseteq Lingering, Leaves' => Leaves, faults' = faults,
             kubelet' = "down" => kubelet = "down"
      PROVE  BudgetOK'
  <2>1. Cardinality(Lingering') \in Nat /\ Cardinality(Lingering') <= Cardinality(Lingering)
    BY <1>1, LingeringFinite, Shrinks
  <2>2. One(Leaves') <= One(Leaves) /\ One(kubelet' = "down") <= One(kubelet = "down")
        /\ One(Leaves') \in Nat /\ One(Leaves) \in Nat
        /\ One(kubelet' = "down") \in Nat /\ One(kubelet = "down") \in Nat
    BY <1>1 DEF One
  <2>3. QED
    BY <1>0, <1>1, <2>1, <2>2 DEF BudgetOK
<1>2. ASSUME UNCHANGED <<cur, server, goroutine, path>>, main' # "dial",
             main # "start", main' # "start"
      PROVE  Lingering' \subseteq Lingering /\ (Leaves' => Leaves)
  BY <1>2 DEF Lingering, Leaves, Current
<1>3. CASE Restart \/ RegisterFails \/ OnSignal
  <2>1. CASE \E n \in Nat : Stop(n)
    <3>1. /\ main \notin {"dial", "start"} /\ main' # "dial" /\ UNCHANGED <<cur, kubelet>>
      BY <1>3 DEF Restart, RegisterFails, OnSignal, kubeletVars
    <3>2. QED
      BY <2>1, <3>1, StopBudget
  <2>2. CASE ~(\E n \in Nat : Stop(n))
    <3>1. /\ OnSignal /\ main = "events" /\ main' = "restart"
          /\ UNCHANGED <<cur, server, goroutine, path, kubelet, faults>>
      BY <1>3, <2>2 DEF Restart, RegisterFails, OnSignal, kubeletVars
    <3>2. QED
      BY <1>1, <1>2, <3>1
  <2>3. QED
    BY <2>1, <2>2
<1>4. CASE Dial \/ Register \/ OnStartError \/ OnKubeletSocket
  <2>1. UNCHANGED <<cur, server, goroutine, path, kubelet, faults>>
        /\ main' \notin {"dial", "start"} /\ main # "start"
    BY <1>4 DEF Dial, Register, OnStartError, OnKubeletSocket, pluginVars, kubeletVars
  <2>2. QED
    BY <1>1, <1>2, <2>1
<1>5. CASE DialFails
  <2>1. /\ main = "dial" /\ path # cur /\ main' = "events"
        /\ server' = [server EXCEPT ![cur] = FALSE]
        /\ UNCHANGED <<cur, goroutine, path, kubelet, faults>>
    BY <1>5 DEF DialFails, kubeletVars
  <2>2. cur \in Plugins /\ server[cur] /\ Leaves
    BY <1>0, <2>1 DEF MainOK, Leaves, Current
  <2>3. ~Leaves'
    BY <1>0, <2>1, <2>2 DEF Leaves, Current
  <2>4. Lingering' \subseteq Lingering \cup {cur}
    BY <1>0, <2>1, <2>2 DEF Lingering, Current
  <2>5. /\ Cardinality(Lingering') \in Nat
        /\ Cardinality(Lingering') <= Cardinality(Lingering) + 1
    BY <2>4, LingeringFinite, GrowsByOne
  <2>6. QED
    BY <1>0, <2>1, <2>2, <2>3, <2>5 DEF BudgetOK, One
<1>6. ASSUME NEW i \in Plugins, ServeNext(i) PROVE BudgetOK'
  <2>1. ~Panic
    BY DEF Panic, Running
  <2>2. CASE ServeStarts(i)
    <3>1. /\ goroutine[i] = "start" /\ server[i] /\ goroutine' = [goroutine EXCEPT ![i] = "serving"]
          /\ UNCHANGED <<main, cur, server, path, kubelet, faults>>
      BY <2>1, <2>2 DEF ServeStarts, kubeletVars
    <3>2. Lingering' \subseteq Lingering
      BY <1>0, <3>1 DEF Lingering, Current, MainOK
    <3>3. Leaves' => Leaves
      BY <1>0, <3>1 DEF Leaves, Current
    <3>4. QED
      BY <1>1, <3>1, <3>2, <3>3
  <2>3. CASE ServeAgain(i)
    <3>1. UNCHANGED <<main, cur, server, goroutine, path, kubelet, faults>>
      BY <2>1, <2>3 DEF ServeAgain, kubeletVars
    <3>2. Lingering' \subseteq Lingering /\ (Leaves' => Leaves)
      BY <3>1 DEF Lingering, Leaves, Current
    <3>3. QED
      BY <1>1, <3>1, <3>2
  <2>4. QED
    BY <1>6, <2>2, <2>3 DEF ServeNext
<1>7. ASSUME NEW i \in Plugins, AcceptFails(i) PROVE BudgetOK'
  <2>1. /\ goroutine[i] = "serving" /\ goroutine' = [goroutine EXCEPT ![i] = "broken"]
        /\ faults' = faults + 1
        /\ UNCHANGED <<main, cur, server, kubelet>>
    BY <1>7 DEF AcceptFails, Fault, Faults, kubeletVars
  <2>2. Lingering' \subseteq Lingering
    BY <1>0, <2>1 DEF Lingering, Current
  <2>3. Cardinality(Lingering') \in Nat /\ Cardinality(Lingering') <= Cardinality(Lingering)
    BY <2>2, LingeringFinite, Shrinks
  <2>4. QED
    BY <1>0, <2>1, <2>3 DEF BudgetOK, One
<1>8. ASSUME NEW s \in {"HUP", "TERM"}, Signal(s) PROVE BudgetOK'
  <2>1. faults' = faults + 1 /\ UNCHANGED <<main, cur, server, goroutine, path, kubelet>>
    BY <1>8 DEF Signal, Fault, Faults, pluginVars, kubeletVars
  <2>2. Lingering' = Lingering /\ (Leaves' <=> Leaves)
    BY <2>1 DEF Lingering, Leaves, Current
  <2>3. QED
    BY <1>0, <2>1, <2>2 DEF BudgetOK, One
<1>9. CASE KubeletStops
  <2>1. faults' = faults + 1 /\ kubelet = "up" /\ UNCHANGED <<main, cur, server, goroutine, path>>
    BY <1>9 DEF KubeletStops, Fault, Faults
  <2>2. Lingering' = Lingering /\ (Leaves' <=> Leaves)
    BY <2>1 DEF Lingering, Leaves, Current
  <2>3. QED
    BY <1>0, <2>1, <2>2 DEF BudgetOK, One
<1>10. CASE KubeletWipes
  <2>1. faults' = faults /\ kubelet = "down" /\ kubelet' = "wiped"
        /\ UNCHANGED <<main, cur, server, goroutine>>
    BY <1>10 DEF KubeletWipes
  <2>2. Lingering' = Lingering
    BY <2>1 DEF Lingering, Current
  <2>3. QED
    BY <1>0, <2>1, <2>2 DEF BudgetOK, One
<1>11. CASE KubeletListens \/ KubeletConnects
  <2>1. UNCHANGED <<main, cur, server, goroutine, path, faults>> /\ (kubelet' = kubelet \/ kubelet' = "up")
    BY <1>11 DEF KubeletListens, KubeletConnects, pluginVars
  <2>2. Lingering' \subseteq Lingering /\ (Leaves' => Leaves)
    BY <2>1 DEF Lingering, Leaves, Current
  <2>3. QED
    BY <1>1, <2>1, <2>2
<1>12. CASE Start \/ ListenFails
  <2>1. PICK i \in Plugins : i = NewNvshareDevicePlugin /\ goroutine[i] \in {"none", "ended"}
    BY <1>12, NewPluginExists DEF Start, ListenFails
  <2>2. main = "start"
    BY <1>12 DEF Start, ListenFails
  <2>3. CASE Start
    <3>1. /\ cur' = i /\ path' = i /\ server' = [server EXCEPT ![i] = TRUE]
          /\ goroutine' = [goroutine EXCEPT ![i] = "start"]
          /\ UNCHANGED <<kubelet, faults>>
      BY <2>1, <2>3 DEF Start, kubeletVars
    <3>2. ~Leaves'
      BY <1>0, <3>1 DEF Leaves, Current
    <3>3. Lingering' \subseteq Lingering
      BY <1>0, <2>2, <3>1 DEF Lingering, Current
    <3>4. QED
      BY <1>1, <3>1, <3>2, <3>3
  <2>4. CASE ListenFails
    <3>1. /\ cur' = i /\ server' = [server EXCEPT ![i] = FALSE] /\ faults' = faults + 1
          /\ UNCHANGED <<goroutine, kubelet>>
      BY <2>1, <2>4 DEF ListenFails, Fault, Faults, kubeletVars
    <3>2. ~Leaves'
      BY <1>0, <3>1 DEF Leaves, Current
    <3>3. Lingering' \subseteq Lingering
      BY <2>2, <3>1 DEF Lingering, Current
    <3>4. Cardinality(Lingering') \in Nat /\ Cardinality(Lingering') <= Cardinality(Lingering)
      BY <3>3, LingeringFinite, Shrinks
    <3>5. QED
      BY <1>0, <3>1, <3>2, <3>4 DEF BudgetOK, One
  <2>5. QED
    BY <1>12, <2>3, <2>4
<1>13. ~ContainerRestarts
  BY DEF ContainerRestarts, Running
<1>14. QED
  BY <1>13, <1>3, <1>4, <1>5, <1>6, <1>7, <1>8, <1>9, <1>10, <1>11, <1>12 DEF PluginNext, MainNext

LEMMA RunningStep ==
    ASSUME PInv, Running, Running', PluginNext
    PROVE  ServersOK' /\ MainOK' /\ PathOK'
<1>0. /\ ServersOK /\ MainOK /\ PathOK
      /\ Slots \in Nat /\ Plugins = 1 .. Slots /\ cur \in 0 .. Slots
      /\ server \in [Plugins -> BOOLEAN]
      /\ goroutine \in [Plugins -> {"none", "start", "serving", "broken", "ended"}]
      /\ created \in Nat
  BY SlotsAssumption DEF PInv, PluginTypeOK, RunningOK, Plugins
<1>1. CASE Restart \/ RegisterFails \/ (OnSignal /\ sigs = "TERM")
  <2>1. OnSignal => sigs # "TERM"
    BY DEF OnSignal, Running
  <2>2. /\ main \in {"restart", "register"} /\ cur' = cur
        /\ main' = "start" \/ (main' = "events" /\ pluginStartError' = TRUE)
        /\ \E n \in Nat : Stop(n)
    BY <1>1, <2>1 DEF Restart, RegisterFails
  <2>3. PluginTypeOK
    BY DEF PInv
  <2>4. /\ \A i \in Plugins : server'[i] => server[i]
        /\ \A i \in Plugins :
              \/ goroutine'[i] = goroutine[i]
              \/ i = cur /\ goroutine[i] = "serving" /\ goroutine'[i] = "ended"
        /\ \A i \in Plugins : i = cur /\ server[i] => goroutine'[i] # "serving"
    BY <2>2, <2>3, StopEffect
  <2>5. \A i \in Plugins : goroutine[i] # "start" /\ goroutine'[i] # "start"
    BY <1>0, <2>2, <2>4 DEF MainOK
  <2>6. \A i \in Plugins : server[i] => goroutine[i] # "none"
    BY <1>0 DEF ServersOK
  <2>7. ServersOK'
    BY <1>0, <2>2, <2>4, <2>5, <2>6 DEF ServersOK, Current
  <2>8. MainOK' /\ PathOK'
    BY <1>0, <2>2, <2>4, <2>5 DEF MainOK, PathOK, NothingPending
  <2>9. QED
    BY <2>7, <2>8
<1>2. CASE Start
  <2>1. PICK i \in Plugins : i = NewNvshareDevicePlugin /\ goroutine[i] \in {"none", "ended"}
    BY <1>2, NewPluginExists DEF Start
  <2>2. /\ \A j \in Plugins : goroutine[j] # "start"
        /\ \A j \in Plugins : server[j] => goroutine[j] \in {"broken", "ended"}
    BY <1>0, <1>2 DEF Start, ServersOK, MainOK, Current
  <2>3. /\ cur' = i /\ server' = [server EXCEPT ![i] = TRUE] /\ main' = "dial"
        /\ goroutine' = [goroutine EXCEPT ![i] = "start"]
    BY <1>2, <2>1 DEF Start
  <2>4. QED
    BY <1>0, <2>2, <2>3 DEF ServersOK, Current, MainOK, PathOK
<1>3. CASE ListenFails
  <2>1. PICK i \in Plugins : i = NewNvshareDevicePlugin /\ goroutine[i] \in {"none", "ended"}
    BY <1>3, NewPluginExists DEF ListenFails
  <2>2. /\ \A j \in Plugins : goroutine[j] # "start"
        /\ \A j \in Plugins : server[j] => goroutine[j] \in {"broken", "ended"}
    BY <1>0, <1>3 DEF ListenFails, ServersOK, MainOK, Current
  <2>3. /\ cur' = i /\ server' = [server EXCEPT ![i] = FALSE] /\ main' = "events"
        /\ pluginStartError' = TRUE /\ goroutine' = goroutine
    BY <1>3, <2>1 DEF ListenFails
  <2>4. QED
    BY <1>0, <2>2, <2>3 DEF ServersOK, Current, MainOK, PathOK, NothingPending
<1>4. CASE Dial
  <2>1. /\ main = "dial" /\ main' = "register" /\ path = cur /\ goroutine[cur] = "serving"
        /\ UNCHANGED <<cur, server, goroutine, path>>
    BY <1>4 DEF Dial, Dialed, pluginVars
  <2>2. QED
    BY <1>0, <2>1 DEF ServersOK, Current, MainOK, PathOK
<1>5. CASE DialFails
  <2>1. /\ main = "dial" /\ main' = "events" /\ pluginStartError' = TRUE /\ goroutine[cur] # "start"
        /\ server' = [server EXCEPT ![cur] = FALSE] /\ UNCHANGED <<cur, goroutine>>
    BY <1>5 DEF DialFails
  <2>2. QED
    BY <1>0, <2>1 DEF ServersOK, Current, MainOK, PathOK, NothingPending
<1>6. CASE Register
  <2>1. /\ main = "register" /\ main' = "events" /\ asked' = TRUE
        /\ UNCHANGED <<cur, server, goroutine, path, pluginStartError, created, kubelet>>
    BY <1>6 DEF Register, pluginVars
  <2>2. QED
    BY <1>0, <2>1 DEF ServersOK, Current, MainOK, PathOK, NothingPending
<1>7. CASE OnStartError \/ OnKubeletSocket \/ (OnSignal /\ sigs # "TERM")
  <2>1. main = "events" /\ main' = "restart" /\ UNCHANGED <<cur, server, goroutine>>
    BY <1>7 DEF OnStartError, OnKubeletSocket, OnSignal, pluginVars
  <2>2. QED
    BY <1>0, <2>1 DEF ServersOK, Current, MainOK, PathOK
<1>8. ASSUME NEW i \in Plugins, ServeNext(i) PROVE ServersOK' /\ MainOK' /\ PathOK'
  <2>1. ~Panic
    BY DEF Panic, Running
  <2>2. CASE ServeStarts(i)
    <3>1. /\ goroutine[i] = "start" /\ goroutine' = [goroutine EXCEPT ![i] = "serving"]
          /\ UNCHANGED <<main, cur, server>>
      BY <2>1, <2>2 DEF ServeStarts
    <3>2. main = "dial" /\ i = cur
      BY <1>0, <3>1 DEF MainOK
    <3>3. QED
      BY <1>0, <3>1, <3>2 DEF ServersOK, Current, MainOK, PathOK
  <2>3. CASE ServeAgain(i)
    <3>1. UNCHANGED <<main, cur, server, goroutine, path, stream, pluginStartError, created,
                      kubelet, asked>>
      BY <2>1, <2>3 DEF ServeAgain, kubeletVars
    <3>2. QED
      BY <1>0, <3>1 DEF ServersOK, Current, MainOK, PathOK, NothingPending
  <2>4. QED
    BY <1>8, <2>2, <2>3 DEF ServeNext
<1>9. ASSUME NEW i \in Plugins, AcceptFails(i) PROVE ServersOK' /\ MainOK' /\ PathOK'
  <2>1. /\ goroutine[i] = "serving" /\ goroutine' = [goroutine EXCEPT ![i] = "broken"]
        /\ UNCHANGED <<main, cur, server>>
    BY <1>9 DEF AcceptFails
  <2>2. QED
    BY <1>0, <2>1 DEF ServersOK, Current, MainOK, PathOK, NothingPending
<1>10. ASSUME NEW s \in {"HUP", "TERM"}, Signal(s) PROVE ServersOK' /\ MainOK' /\ PathOK'
  <2>1. UNCHANGED <<main, cur, server, goroutine, path, stream, pluginStartError, created,
                    kubelet, asked>>
    BY <1>10 DEF Signal, pluginVars, kubeletVars
  <2>2. QED
    BY <1>0, <2>1 DEF ServersOK, Current, MainOK, PathOK, NothingPending
<1>11. CASE KubeletStops
  <2>1. /\ kubelet = "up" /\ kubelet' = "down"
        /\ UNCHANGED <<main, cur, server, goroutine, path, pluginStartError, created>>
    BY <1>11 DEF KubeletStops
  <2>2. QED
    BY <1>0, <2>1 DEF ServersOK, Current, MainOK, PathOK, NothingPending
<1>12. CASE KubeletWipes
  <2>1. kubelet' = "wiped" /\ UNCHANGED <<main, cur, server, goroutine>>
    BY <1>12 DEF KubeletWipes
  <2>2. QED
    BY <1>0, <2>1 DEF ServersOK, Current, MainOK, PathOK
<1>13. CASE KubeletListens
  <2>1. created' = created + 1 /\ UNCHANGED <<main, cur, server, goroutine>>
    BY <1>13 DEF KubeletListens, pluginVars
  <2>2. created' # 0
    BY <1>0, <2>1
  <2>3. QED
    BY <1>0, <2>1, <2>2 DEF ServersOK, Current, MainOK, PathOK, NothingPending
<1>14. CASE KubeletConnects
  <2>1. /\ UNCHANGED <<main, cur, server, goroutine, path, pluginStartError, created, kubelet>>
        /\ path = 0 \/ stream' = path
    BY <1>14 DEF KubeletConnects
  <2>2. QED
    BY <1>0, <2>1 DEF ServersOK, Current, MainOK, PathOK, NothingPending
<1>15. ~ContainerRestarts
  BY DEF ContainerRestarts, Running
<1>16. QED
  BY <1>1, <1>2, <1>3, <1>4, <1>5, <1>6, <1>7, <1>8, <1>9, <1>10, <1>11, <1>12, <1>13, <1>14,
     <1>15 DEF PluginNext, MainNext

(* Each step keeps the invariant *)
LEMMA NextPInv == PInv /\ [PluginNext]_vars => PInv'
<1> SUFFICES ASSUME PInv, [PluginNext]_vars PROVE PInv'
  OBVIOUS
<1>1. PluginTypeOK' /\ CreatedOK'
  BY TypeStep
<1>2. CASE UNCHANGED vars
  <2>1. UNCHANGED <<proc, main, cur, server, goroutine, path, stream, pluginStartError, created,
                    kubelet, asked, faults>>
    BY <1>2 DEF vars, pluginVars, kubeletVars
  <2>2. Lingering' = Lingering /\ (Leaves' <=> Leaves)
    BY <2>1 DEF Lingering, Leaves, Current
  <2>3. BudgetOK => BudgetOK'
    BY <2>1, <2>2 DEF BudgetOK, One
  <2>4. QED
    BY <1>1, <2>1, <2>3 DEF PInv, RunningOK, Running, ServersOK, Current, MainOK, PathOK, NothingPending
<1>3. CASE PluginNext /\ Running
  BY <1>1, <1>3, BudgetStep, RunningStep DEF PInv, RunningOK
<1>4. CASE PluginNext /\ ~Running /\ Running'
  <2>1. ContainerRestarts
    BY <1>4 DEF PluginNext, MainNext, ServeNext, Restart, Start, ListenFails, Dial, DialFails,
                Register, RegisterFails, OnStartError, OnKubeletSocket, OnSignal, ServeStarts,
                ServeAgain, AcceptFails, Signal, KubeletStops, KubeletWipes, KubeletListens,
                KubeletConnects, Running
  <2>2. /\ main' = "restart" /\ cur' = 0 /\ server' = [i \in Plugins |-> FALSE]
        /\ goroutine' = [i \in Plugins |-> "none"] /\ path' = 0
        /\ faults' = faults /\ faults \in Nat
    BY <2>1 DEF ContainerRestarts, Fresh, PInv, PluginTypeOK
  <2>3. ServersOK' /\ MainOK' /\ PathOK'
    BY <2>2 DEF ServersOK, Current, MainOK, PathOK
  <2>4. Lingering' = {} /\ ~Leaves'
    BY <2>2 DEF Lingering, Leaves, Current
  <2>5. Cardinality(Lingering') = 0
    BY <2>4, FS_EmptySet
  <2>6. BudgetOK'
    BY <2>2, <2>4, <2>5 DEF BudgetOK, One
  <2>7. QED
    BY <1>1, <2>3, <2>6 DEF PInv, RunningOK
<1>5. CASE ~Running'
  BY <1>1, <1>5 DEF PInv
<1>6. QED
  BY <1>2, <1>3, <1>4, <1>5

-----------------------------------------------------------------------------
(* PInv holds in every reachable state of main(), the plugins' goroutines and *)
(* the kubelet                                                               *)
THEOREM PluginInvariance == PluginSpec => []PInv
BY InitPInv, NextPInv, PTL DEF PluginSpec

(* Every variable keeps its type; the events the watcher queues stay within  *)
(* the kubelet's restarts, and a new plugin always finds a slot              *)
THEOREM PluginTypeCorrect == PluginSpec => []PluginTypeOK
<1>1. PInv => PluginTypeOK
  BY DEF PInv
<1> QED
  BY <1>1, PluginInvariance, PTL

(* The goroutine Serve() starts never finds its server nil                   *)
THEOREM ServerIsThere == PluginSpec => []ServerWhenStarted
<1>1. PInv => ServerWhenStarted
  BY DEF PInv, RunningOK, MainOK, ServerWhenStarted
<1> QED
  BY <1>1, PluginInvariance, PTL

(* main() that waits with nothing to react to has its plugin registered      *)
(* under the path the kubelet knows, after any number of faults in any order *)
THEOREM DevicesAreAdvertised == PluginSpec => []Advertised
<1>1. PInv => Advertised
  BY DEF PInv, RunningOK, PathOK, NothingPending, Quiet, Advertised
<1> QED
  BY <1>1, PluginInvariance, PTL
=============================================================================
