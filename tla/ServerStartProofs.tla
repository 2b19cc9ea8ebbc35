------------------------- MODULE ServerStartProofs --------------------------
(***************************************************************************)
(* Start-up and routing, for any options, any routes, any calls of start   *)
(* and any failures of the system calls: a server that serves does so as   *)
(* it was told to, and every request finds the handler it should.          *)
(***************************************************************************)
EXTENDS ServerStart, TLAPS, WellFoundedInduction

Steps ==
  {"idle", "configure", "bind", "listen", "fork", "lookup", "setuid", "setgid", "event",
   "router", "serving", "exited"}

OptionsOK ==
  options \in [daemonize : BOOLEAN, user : {"", "www", "unknown"}, group : {"", "www", "unknown"}]

(* What each step of start has seen to, for those behind it.                *)
Progress ==
  /\ pc \in {"configure", "bind", "listen"} => Len(sockets) > 0
  /\ pc \in Steps \ {"idle", "configure", "bind", "listen", "exited"} =>
       fd \in 1..Len(sockets) /\ sockets[fd] = "listening"
  /\ daemon => options.daemonize
  /\ pc \in {"lookup", "setuid", "setgid", "event", "router", "serving"} =>
       daemon = options.daemonize
  /\ pc \in {"setuid", "setgid", "event", "router", "serving"} =>
       options.user # "unknown" /\ options.group # "unknown"
  /\ pc \in {"setgid", "event", "router", "serving"} /\ options.user # "" => uid = options.user
  /\ pc \in {"event", "router", "serving"} /\ options.group # "" => gid = options.group

CatchAll == <<<<>>, Forbidden>>

(* Each route is the program's or the catch-all, which a server that serves *)
(* has.                                                                     *)
RoutesOK ==
  /\ routes \in Seq({<<prefix, prefix>> : prefix \in Prefix} \cup {CatchAll})
  /\ pc = "serving" => \E i \in 1..Len(routes) : routes[i] = CatchAll
  /\ request # NoRequest => pc = "serving" /\ request.url \in Url

IInv == TypeOK /\ OptionsOK /\ Progress /\ RoutesOK /\ Routed

-----------------------------------------------------------------------------
LEMMA InitIInv == Init => IInv
<1> SUFFICES ASSUME Init PROVE IInv
  OBVIOUS
<1>1. routes = <<>> /\ sockets = <<>> /\ request = NoRequest
  BY DEF Init
<1>2. TypeOK
  <2>1. sockets \in Seq({"created", "bound", "listening"}) /\ fd \in 0..Len(sockets)
    <3>1. fd = 0 /\ Len(sockets) = 0
      BY <1>1 DEF Init, None
    <3> QED
      BY <1>1, <3>1
  <2>2. pc \in Steps /\ {uid, gid} \subseteq {"root", "www"} /\ daemon \in BOOLEAN
    BY DEF Init, Steps
  <2>3. \A i \in 1..Len(routes) : routes[i][2] \in Prefix \cup {Forbidden}
    BY <1>1
  <2> QED
    BY <2>1, <2>2, <2>3 DEF TypeOK, Steps
<1>3. OptionsOK /\ Progress
  BY DEF Init, OptionsOK, Progress, Steps
<1>4. RoutesOK
  <2> DEFINE R == {<<prefix, prefix>> : prefix \in Prefix} \cup {CatchAll}
  <2> HIDE DEF R
  <2>1. routes \in Seq(R)
    BY <1>1
  <2> USE DEF R
  <2> QED
    BY <1>1, <2>1 DEF Init, RoutesOK
<1>5. Routed
  BY <1>1 DEF Routed
<1> QED
  BY <1>2, <1>3, <1>4, <1>5 DEF IInv

(* A step of start changes no route and meets no request.                   *)
LEMMA StartStepKeeps ==
  ASSUME IInv, UNCHANGED <<options, request, routes>>, pc # "serving", pc' # "serving"
  PROVE  OptionsOK' /\ RoutesOK' /\ Routed'
<1>1. OptionsOK'
  BY DEF IInv, OptionsOK
<1>2. RoutesOK' /\ request = NoRequest
  BY DEF IInv, RoutesOK
<1>3. Routed'
  BY <1>2 DEF Routed
<1> QED
  BY <1>1, <1>2, <1>3

LEMMA SetupKeeps ==
  ASSUME IInv, Start \/ Configure \/ Bind \/ Listen \/ SetupFails
  PROVE  IInv'
<1> USE DEF At, Become, Current, None
<1>1. pc # "serving" /\ pc' # "serving" /\ UNCHANGED <<options, request, routes, uid, gid, daemon>>
  BY DEF Start, Configure, Bind, Listen, SetupFails
<1>2. TypeOK /\ Progress /\ sockets \in Seq({"created", "bound", "listening"}) /\ Len(sockets) \in Nat
  BY DEF IInv, TypeOK
<1>3. TypeOK' /\ Progress'
  <2>1. CASE Start
    <3>1. CASE sockets' = Append(sockets, "created") /\ pc' = "configure" /\ UNCHANGED fd
      <4>1. Len(sockets') = Len(sockets) + 1 /\ sockets' \in Seq({"created", "bound", "listening"})
        BY <1>2, <3>1
      <4>2. TypeOK'
        BY <1>1, <1>2, <3>1, <4>1 DEF TypeOK
      <4>3. Progress'
        <5>1. Len(sockets') > 0 /\ UNCHANGED <<options, daemon>>
          BY <1>1, <1>2, <4>1
        <5> QED
          BY <1>2, <3>1, <5>1 DEF Progress, Steps
      <4> QED
        BY <4>2, <4>3
    <3>2. CASE pc' = "idle" /\ fd' = None /\ UNCHANGED sockets
      <4>1. TypeOK'
        BY <1>1, <1>2, <3>2 DEF TypeOK
      <4>2. Progress'
        BY <1>1, <1>2, <3>2 DEF Progress, Steps
      <4> QED
        BY <4>1, <4>2
    <3> QED
      BY <2>1, <3>1, <3>2 DEF Start
  <2>2. CASE Configure
    BY <1>1, <1>2, <2>2 DEF Configure, TypeOK, Progress, Steps
  <2>3. CASE Bind
    BY <1>1, <1>2, <2>3 DEF Bind, TypeOK, Progress, Steps
  <2>4. CASE Listen
    BY <1>1, <1>2, <2>4 DEF Listen, TypeOK, Progress, Steps
  <2>5. CASE SetupFails
    <3>1. fd' = 0 /\ pc' = "idle" /\ UNCHANGED sockets
      BY <2>5 DEF SetupFails
    <3>2. TypeOK'
      BY <1>1, <1>2, <3>1 DEF TypeOK
    <3>3. Progress'
      BY <1>1, <1>2, <3>1 DEF Progress, Steps
    <3> QED
      BY <3>2, <3>3
  <2> QED
    BY <2>1, <2>2, <2>3, <2>4, <2>5
<1> QED
  BY <1>1, <1>3, StartStepKeeps DEF IInv

LEMMA PrivilegesKeep ==
  ASSUME IInv, Daemonize \/ LookUp \/ SetUid \/ SetGid \/ AddEvent
  PROVE  IInv'
<1> USE DEF At, Become
<1>1. /\ pc # "serving" /\ pc' # "serving"
      /\ UNCHANGED <<options, request, routes, sockets, fd>>
  BY DEF Daemonize, LookUp, SetUid, SetGid, AddEvent
<1>2. TypeOK /\ Progress /\ OptionsOK
  BY DEF IInv
<1>3. TypeOK' /\ Progress'
  <2>1. CASE Daemonize
    <3>1. /\ pc = "fork" /\ UNCHANGED <<uid, gid>>
          /\ \/ options.daemonize /\ daemon' = TRUE /\ pc' = "lookup"
             \/ options.daemonize /\ daemon' = daemon /\ pc' = "exited"
             \/ ~options.daemonize /\ daemon' = daemon /\ pc' = "lookup"
      BY <2>1 DEF Daemonize
    <3>2. TypeOK'
      BY <1>1, <1>2, <3>1 DEF TypeOK
    <3>3. options.daemonize \in BOOLEAN
      BY <1>2 DEF OptionsOK
    <3>4. daemon \in BOOLEAN /\ (daemon => options.daemonize)
      BY <1>2 DEF TypeOK, Progress
    <3>5. (daemon' => options.daemonize) /\ (pc' = "lookup" => daemon' = options.daemonize)
      <4>1. CASE options.daemonize /\ daemon' = TRUE
        BY <3>3, <4>1
      <4>2. CASE options.daemonize /\ daemon' = daemon /\ pc' = "exited"
        BY <3>4, <4>2
      <4>3. CASE ~options.daemonize /\ daemon' = daemon
        BY <3>3, <3>4, <4>3
      <4> QED
        BY <3>1, <4>1, <4>2, <4>3
    <3>6. Progress'
      BY <1>1, <1>2, <3>1, <3>5 DEF Progress, Steps
    <3> QED
      BY <3>2, <3>6
  <2>2. CASE LookUp
    <3>1. /\ pc = "lookup" /\ UNCHANGED <<daemon, uid, gid>>
          /\ \/ pc' = "idle"
             \/ pc' = "setuid" /\ options.user # "unknown" /\ options.group # "unknown"
      BY <2>2 DEF LookUp
    <3>2. TypeOK'
      BY <1>1, <1>2, <3>1 DEF TypeOK
    <3>3. Progress'
      BY <1>1, <1>2, <3>1 DEF Progress, Steps
    <3> QED
      BY <3>2, <3>3
  <2>3. CASE SetUid
    BY <1>1, <1>2, <2>3 DEF SetUid, TypeOK, OptionsOK, Progress, Steps, May
  <2>4. CASE SetGid
    BY <1>1, <1>2, <2>4 DEF SetGid, TypeOK, OptionsOK, Progress, Steps
  <2>5. CASE AddEvent
    BY <1>1, <1>2, <2>5 DEF AddEvent, TypeOK, OptionsOK, Progress, Steps
  <2> QED
    BY <2>1, <2>2, <2>3, <2>4, <2>5
<1> QED
  BY <1>1, <1>3, StartStepKeeps DEF IInv

-----------------------------------------------------------------------------
(* Dispatcher::get finds the first of the routes that match; that there is  *)
(* a first of any numbers is what needs an induction.                       *)
LEMMA Least ==
  ASSUME NEW T, T \subseteq Nat, T # {}
  PROVE  \E x \in T : \A y \in T : x <= y
<1> DEFINE R == OpToRel(<, Nat)
<1>1. \A x, y \in Nat : <<x, y>> \in R <=> x < y
  BY DEF OpToRel
<1>2. IsWellFoundedOn(R, Nat)
  BY NatLessThanWellFounded
<1> HIDE DEF R
<1>3. PICK x \in T : \A y \in T : ~ (<<y, x>> \in R)
  BY <1>2, WFMin
<1>4. ASSUME NEW y \in T PROVE x <= y
  <2>1. ~(y < x)
    BY <1>1, <1>3
  <2> QED
    BY <2>1
<1> QED
  BY <1>4

(* What is said of the routes in terms of those that a request may match.   *)
Added == {i \in 1..Len(routes) : \A j \in 1..i : routes[j][2] # Forbidden}
Wanted(text) == {i \in Added : IsPrefix(routes[i][2], text)}
Rightly(handler, text) ==
  IF Wanted(text) = {} THEN handler = Forbidden
  ELSE \E i \in Wanted(text) : handler = routes[i][2] /\ \A j \in Wanted(text) : i <= j

LEMMA DispatchIsRight ==
  ASSUME IInv, pc = "serving", NEW url \in Url
  PROVE  Rightly(Dispatch(routes, url.text), url.text)
<1> DEFINE text == url.text
           R == {<<prefix, prefix>> : prefix \in Prefix} \cup {CatchAll}
           matching == {i \in 1..Len(routes) : IsPrefix(routes[i][1], text)}
<1>1. routes \in Seq(R) /\ Len(routes) \in Nat
  BY DEF IInv, RoutesOK
<1>2. \A r \in R : r[2] # Forbidden => r[1] = r[2]
  BY DEF CatchAll
<1>3. \A r \in R : r[2] = Forbidden => r[1] = <<>>
  BY RoutesAssumption DEF CatchAll
<1>4. CatchAll[1] = <<>> /\ CatchAll[2] = Forbidden
  BY DEF CatchAll
<1> HIDE DEF R
<1>5. \A i \in 1..Len(routes) : routes[i] \in R
  BY <1>1
<1>6. IsPrefix(<<>>, text)
  BY RoutesAssumption DEF IsPrefix
<1>7. \A i \in 1..Len(routes) : routes[i][2] = Forbidden => i \in matching
  BY <1>3, <1>5, <1>6
<1>8. matching # {}
  <2>1. PICK i \in 1..Len(routes) : routes[i] = CatchAll
    BY DEF IInv, RoutesOK
  <2> QED
    BY <1>4, <1>7, <2>1
<1>9. matching \subseteq Nat
  BY <1>1
<1> DEFINE first == CHOOSE i \in matching : \A j \in matching : i <= j
<1>10. first \in matching /\ \A j \in matching : first <= j
  <2> HIDE DEF matching
  <2> QED
    BY <1>8, <1>9, Least
<1>11. Dispatch(routes, text) = routes[first][2]
  BY <1>8 DEF Dispatch
<1> HIDE DEF first
<1>12. first \in 1..Len(routes) /\ \A j \in 1..Len(routes) : j < first => j \notin matching
  BY <1>1, <1>10
<1>13. \A j \in 1..Len(routes) : j < first => routes[j][2] # Forbidden
  BY <1>7, <1>12
<1>14. Wanted(text) \subseteq matching
  BY <1>2, <1>5 DEF Wanted, Added
<1>15. CASE routes[first][2] = Forbidden
  <2>1. ASSUME NEW i \in Wanted(text) PROVE FALSE
    <3>1. i \in matching /\ i \in Nat /\ first \in 1..i
      BY <1>1, <1>10, <1>12, <1>14, <2>1
    <3> QED
      BY <1>15, <2>1, <3>1 DEF Wanted, Added
  <2> QED
    BY <1>11, <1>15, <2>1 DEF Rightly
<1>16. CASE routes[first][2] # Forbidden
  <2>1. first \in Added
    BY <1>1, <1>12, <1>13, <1>16 DEF Added
  <2>2. IsPrefix(routes[first][2], text)
    BY <1>2, <1>5, <1>10, <1>12, <1>16
  <2>3. first \in Wanted(text)
    BY <2>1, <2>2 DEF Wanted
  <2> QED
    BY <1>10, <1>11, <1>14, <2>3 DEF Rightly
<1> QED
  BY <1>15, <1>16

LEMMA RoutedIs ==
  /\ Routed <=> (request # NoRequest => Rightly(request.handler, request.url.text))
  /\ Routed' <=> (request # NoRequest => Rightly(request.handler, request.url.text))'
  BY DEF Routed, Rightly, Wanted, Added

(* A route that is added behind the catch-all changes nothing for those     *)
(* that are there; nothing is added before it while a request is handled.   *)
LEMMA AddRouteKeeps ==
  ASSUME IInv, AddRoute
  PROVE  IInv'
<1> DEFINE R == {<<prefix, prefix>> : prefix \in Prefix} \cup {CatchAll}
<1>1. PICK prefix \in Prefix : routes' = Append(routes, <<prefix, prefix>>)
  BY DEF AddRoute
<1>2. UNCHANGED <<pc, sockets, fd, daemon, uid, gid, options, request>>
  BY DEF AddRoute, startVars
<1>3. routes \in Seq(R) /\ Len(routes) \in Nat /\ <<prefix, prefix>> \in R
  BY DEF IInv, RoutesOK
<1> HIDE DEF R
<1>4. /\ routes' \in Seq(R) /\ Len(routes') = Len(routes) + 1
      /\ \A i \in 1..Len(routes) : i \in 1..Len(routes') /\ routes'[i] = routes[i]
      /\ routes'[Len(routes) + 1] = <<prefix, prefix>>
  BY <1>1, <1>3
<1>5. TypeOK'
  BY <1>2, <1>3, <1>4 DEF IInv, TypeOK
<1>6. OptionsOK' /\ Progress'
  BY <1>2 DEF IInv, OptionsOK, Progress, Steps
<1>7. RoutesOK'
  <2>1. pc' = "serving" => \E i \in 1..Len(routes') : routes'[i] = CatchAll
    BY <1>2, <1>4 DEF IInv, RoutesOK
  <2> USE DEF R
  <2> QED
    BY <1>2, <1>4, <2>1 DEF IInv, RoutesOK
<1>8. Routed'
  <2> SUFFICES ASSUME request # NoRequest
               PROVE  Routed'
    BY <1>2 DEF Routed
  <2>1. PICK k \in 1..Len(routes) : routes[k] = CatchAll
    BY DEF IInv, RoutesOK
  <2>2. routes[k][2] = Forbidden
    BY <2>1 DEF CatchAll
  <2>3. ASSUME NEW i
        PROVE  i \in Added' <=> i \in Added
    <3>1. i \in Added => i \in Added'
      BY <1>3, <1>4 DEF Added
    <3>2. ASSUME i \in Added' PROVE i \in Added
      <4>1. i \in 1..Len(routes') /\ \A j \in 1..i : routes'[j][2] # Forbidden
        BY <3>2 DEF Added
      <4>2. k \notin 1..i
        BY <1>4, <2>2, <4>1
      <4>3. i \in 1..Len(routes)
        BY <1>3, <1>4, <4>1, <4>2
      <4> QED
        BY <1>3, <1>4, <4>1, <4>3 DEF Added
    <3> QED
      BY <3>1, <3>2
  <2>4. \A i \in Added : routes'[i] = routes[i]
    BY <1>4 DEF Added
  <2>5. \A text : Wanted(text)' = Wanted(text)
    BY <2>3, <2>4 DEF Wanted
  <2>6. \A text : Wanted(text) \subseteq Added
    BY DEF Wanted
  <2>7. Rightly(request.handler, request.url.text)
    BY RoutedIs DEF IInv
  <2>8. Rightly(request.handler, request.url.text)'
    BY <1>2, <2>4, <2>5, <2>6, <2>7 DEF Rightly
  <2> QED
    BY <2>8, RoutedIs
<1> QED
  BY <1>5, <1>6, <1>7, <1>8 DEF IInv

LEMMA AddCatchAllKeeps ==
  ASSUME IInv, AddCatchAll
  PROVE  IInv'
<1> DEFINE R == {<<prefix, prefix>> : prefix \in Prefix} \cup {CatchAll}
<1>1. /\ pc = "router" /\ pc' = "serving" /\ routes' = Append(routes, CatchAll)
      /\ UNCHANGED <<sockets, fd, daemon, uid, gid, options, request>>
  BY DEF AddCatchAll, At, Become, CatchAll
<1>2. routes \in Seq(R) /\ Len(routes) \in Nat /\ CatchAll \in R /\ CatchAll[2] = Forbidden
  BY DEF IInv, RoutesOK, CatchAll
<1> HIDE DEF R
<1>3. /\ routes' \in Seq(R) /\ Len(routes') = Len(routes) + 1
      /\ \A i \in 1..Len(routes) : routes'[i] = routes[i]
      /\ routes'[Len(routes) + 1] = CatchAll
  BY <1>1, <1>2
<1>4. TypeOK'
  <2>1. \A i \in 1..Len(routes') : routes'[i][2] \in Prefix \cup {Forbidden}
    BY <1>2, <1>3 DEF IInv, TypeOK
  <2> QED
    BY <1>1, <2>1 DEF IInv, TypeOK
<1>5. OptionsOK' /\ Progress'
  BY <1>1 DEF IInv, OptionsOK, Progress, Steps
<1>6. request = NoRequest
  BY <1>1 DEF IInv, RoutesOK
<1>7. RoutesOK'
  <2>1. \E i \in 1..Len(routes') : routes'[i] = CatchAll
    BY <1>2, <1>3
  <2> USE DEF R
  <2> QED
    BY <1>1, <1>3, <1>6, <2>1 DEF RoutesOK
<1>8. Routed'
  BY <1>1, <1>6 DEF Routed
<1> QED
  BY <1>4, <1>5, <1>7, <1>8 DEF IInv

LEMMA ServeKeeps ==
  ASSUME IInv, Serve \/ Served
  PROVE  IInv'
<1> USE DEF startVars
<1>1. UNCHANGED <<startVars, options, routes>>
  BY DEF Serve, Served
<1>2. TypeOK' /\ OptionsOK' /\ Progress'
  BY <1>1 DEF IInv, TypeOK, OptionsOK, Progress, Steps
<1>3. CASE Served
  <2>1. request' = NoRequest
    BY <1>3 DEF Served
  <2>2. RoutesOK' /\ Routed'
    BY <1>1, <2>1 DEF IInv, RoutesOK, Routed
  <2> QED
    BY <1>2, <2>2 DEF IInv
<1>4. CASE Serve
  <2>1. PICK url \in Url :
          request' = [url |-> url, handler |-> Dispatch(routes, url.text),
                      arguments |-> QueryString(url.text)]
    BY <1>4 DEF Serve
  <2>2. pc = "serving"
    BY <1>4 DEF Serve
  <2>3. request'.url = url /\ request'.handler = Dispatch(routes, url.text)
    BY <2>1
  <2>4. RoutesOK'
    BY <1>1, <2>2, <2>3 DEF IInv, RoutesOK
  <2>5. \A text : Wanted(text)' = Wanted(text)
    BY <1>1 DEF Wanted, Added
  <2>6. Rightly(request'.handler, request'.url.text)
    BY <2>2, <2>3, DispatchIsRight
  <2>7. Rightly(request.handler, request.url.text)'
    BY <1>1, <2>5, <2>6 DEF Rightly
  <2>8. Routed'
    BY <2>7, RoutedIs
  <2> QED
    BY <1>2, <2>4, <2>8 DEF IInv
<1> QED
  BY <1>3, <1>4

LEMMA NextKeeps == IInv /\ [Next]_vars => IInv'
<1> SUFFICES ASSUME IInv, [Next]_vars
             PROVE  IInv'
  OBVIOUS
<1>1. CASE AddRoute
  BY <1>1, AddRouteKeeps
<1>2. CASE Start \/ Configure \/ Bind \/ Listen \/ SetupFails
  BY <1>2, SetupKeeps
<1>3. CASE Daemonize \/ LookUp \/ SetUid \/ SetGid \/ AddEvent
  BY <1>3, PrivilegesKeep
<1>4. CASE AddCatchAll
  BY <1>4, AddCatchAllKeeps
<1>5. CASE Serve \/ Served
  BY <1>5, ServeKeeps
<1>6. CASE UNCHANGED vars
  <2> USE <1>6 DEF vars, startVars
  <2>1. TypeOK' /\ OptionsOK' /\ Progress'
    BY DEF IInv, TypeOK, OptionsOK, Progress, Steps
  <2>2. RoutesOK'
    BY DEF IInv, RoutesOK
  <2>3. Routed'
    BY DEF IInv, Routed
  <2> QED
    BY <2>1, <2>2, <2>3 DEF IInv
<1> QED
  BY <1>1, <1>2, <1>3, <1>4, <1>5, <1>6 DEF Next

LEMMA Invariance == Spec => []IInv
<1>1. Init => IInv
  BY InitIInv
<1>2. IInv /\ [Next]_vars => IInv'
  BY NextKeeps
<1> QED
  BY <1>1, <1>2, PTL DEF Spec

(* Types, among them that no user or group but a known one is ever taken.   *)
THEOREM TypeCorrect == Spec => []TypeOK
<1>1. IInv => TypeOK
  BY DEF IInv
<1> QED
  BY <1>1, Invariance, PTL

(* Server::start gets to serving only on a socket that listens, and as what *)
(* the options say, whatever failed in this call or an earlier one.         *)
THEOREM ServesAsTold == Spec => []StartedAsTold
<1>1. IInv => StartedAsTold
  BY DEF IInv, Progress, StartedAsTold, Steps
<1> QED
  BY <1>1, Invariance, PTL

(* Dispatcher::get finds a handler for every request: that of the first     *)
(* route that matches, else the catch-all's.                                *)
THEOREM RequestsRouted == Spec => []Routed
<1>1. IInv => Routed
  BY DEF IInv
<1> QED
  BY <1>1, Invariance, PTL
=============================================================================
