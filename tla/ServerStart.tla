----------------------------- MODULE ServerStart -----------------------------
(***************************************************************************)
(* Server::start (server.cpp): the listening socket, the fork, the         *)
(* privileges, the accept event and the catch-all handler; then requests   *)
(* that are routed.  Each system call may fail, and start returns; the     *)
(* program may call it again.                                              *)
(***************************************************************************)
EXTENDS Routing

CONSTANTS
  Prefix,    \* of routes that the program adds
  Url,       \* of requests: the text, and the arguments it was made from,
             \* bare those that are written without an equal sign
  MaxRoutes, \* bound: routes
  MaxStarts  \* bound: calls of start

VARIABLES
  options,   \* m_options: what is set, as "", "www" or a name that is not known
  routes,    \* m_handlers of the Dispatcher
  pc,        \* the step of start, "idle" outside it, "serving" in dispatch
  sockets,   \* of each call of start, the state of its socket
  fd,        \* m_fd, as the call of start it is from
  uid, gid,  \* who the process is
  daemon,    \* it has no parent or terminal
  request    \* the last request: its URL, handler and arguments

startVars == <<pc, sockets, fd, daemon, uid, gid>>
vars == <<startVars, options, routes, request>>

None == 0
Forbidden == <<"403">>

(* A route is known by its prefix, and the catch-all as Forbidden.          *)
ASSUME RoutesAssumption ==
  /\ Prefix \subseteq Seq(STRING) \ {Forbidden}
  /\ \A url \in Url : url.text \in Seq(STRING)

NoRequest == [url |-> [text |-> <<>>, meant |-> <<>>], handler |-> Forbidden, arguments |-> NoArguments]

Init ==
  /\ options \in [daemonize : BOOLEAN, user : {"", "www", "unknown"}, group : {"", "www", "unknown"}]
  /\ routes = <<>>
  /\ pc = "idle"
  /\ sockets = <<>>
  /\ fd = None
  /\ uid \in {"root", "www"}
  /\ gid \in {"root", "www"}
  /\ daemon = FALSE
  /\ request = NoRequest

-----------------------------------------------------------------------------
(* The program's Dispatcher::add, before start or in a handler.             *)
AddRoute ==
  /\ pc \in {"idle", "serving"}
  /\ Len(routes) < MaxRoutes
  /\ \E prefix \in Prefix : routes' = Append(routes, <<prefix, prefix>>)
  /\ UNCHANGED <<startVars, options, request>>

At(s) == pc = s /\ UNCHANGED <<options, request>>
Become(s) == pc' = s
Current == Len(sockets)

(* Where there is no socket to be had, start returns, and m_fd is -1.       *)
Start ==
  /\ At("idle")
  /\ \/ /\ Len(sockets) < MaxStarts
        /\ sockets' = Append(sockets, "created")
        /\ Become("configure")
        /\ UNCHANGED fd
     \/ /\ Become("idle")
        /\ fd' = None
        /\ UNCHANGED sockets
  /\ UNCHANGED <<routes, daemon, uid, gid>>

(* setup_socket: with SO_REUSEADDR, what stands in bind's or listen's way   *)
(* is a socket that listens, such as one that an earlier start has left.    *)
Configure ==
  /\ At("configure")
  /\ Become("bind")
  /\ UNCHANGED <<routes, sockets, fd, daemon, uid, gid>>

Taken == \E i \in 1..Len(sockets) : sockets[i] = "listening"

Bind ==
  /\ At("bind")
  /\ ~Taken
  /\ sockets' = [sockets EXCEPT ![Current] = "bound"]
  /\ Become("listen")
  /\ UNCHANGED <<routes, fd, daemon, uid, gid>>

Listen ==
  /\ At("listen")
  /\ sockets' = [sockets EXCEPT ![Current] = "listening"]
  /\ fd' = Current
  /\ Become("fork")
  /\ UNCHANGED <<routes, daemon, uid, gid>>

(* A step of setup_socket fails: its socket stays open, m_fd is -1.         *)
SetupFails ==
  /\ \E s \in {"configure", "bind", "listen"} : At(s)
  /\ fd' = None
  /\ Become("idle")
  /\ UNCHANGED <<routes, sockets, daemon, uid, gid>>

(* daemonize: the child goes on.  Where there is none, nothing does.        *)
Daemonize ==
  /\ At("fork")
  /\ \/ /\ options.daemonize
        /\ daemon' = TRUE
        /\ Become("lookup")
     \/ /\ options.daemonize
        /\ UNCHANGED daemon
        /\ Become("exited")
     \/ /\ ~options.daemonize
        /\ UNCHANGED daemon
        /\ Become("lookup")
  /\ UNCHANGED <<routes, sockets, fd, uid, gid>>

(* drop_privileges: both names are looked up, then the user is changed, and *)
(* then, with what that user may do, the group.                             *)
LookUp ==
  /\ At("lookup")
  /\ Become(IF "unknown" \in {options.user, options.group} THEN "idle" ELSE "setuid")
  /\ UNCHANGED <<routes, sockets, fd, daemon, uid, gid>>

May(name) == uid = "root" \/ name = uid

(* Fault: that setuid failed is only logged.                                *)
SetUid_Ignored ==
  /\ At("setuid")
  /\ \/ options.user # "" /\ May(options.user) /\ uid' = options.user
     \/ UNCHANGED uid
  /\ Become("setgid")
  /\ UNCHANGED <<routes, sockets, fd, daemon, gid>>

SetUid ==
  /\ At("setuid")
  /\ \/ options.user = "" /\ Become("setgid") /\ UNCHANGED uid
     \/ options.user # "" /\ May(options.user) /\ Become("setgid") /\ uid' = options.user
     \/ options.user # "" /\ Become("idle") /\ UNCHANGED uid
  /\ UNCHANGED <<routes, sockets, fd, daemon, gid>>

(* Fault: the group is set even where none is given.                        *)
SetGid_Always ==
  /\ At("setgid")
  /\ uid = "root"
  /\ Become("event")
  /\ gid' = options.group
  /\ UNCHANGED <<routes, sockets, fd, daemon, uid>>

SetGid ==
  /\ At("setgid")
  /\ \/ options.group = "" /\ Become("event") /\ UNCHANGED gid
     \/ /\ options.group # ""
        /\ uid = "root" \/ gid = options.group
        /\ Become("event")
        /\ gid' = options.group
     \/ options.group # "" /\ Become("idle") /\ UNCHANGED gid
  /\ UNCHANGED <<routes, sockets, fd, daemon, uid>>

AddEvent ==
  /\ At("event")
  /\ pc' \in {"router", "idle"}
  /\ UNCHANGED <<routes, sockets, fd, daemon, uid, gid>>

(* Fault: the catch-all is for what looks like a path.                      *)
AddCatchAll_Path ==
  /\ At("router")
  /\ routes' = Append(routes, <<<<"/">>, Forbidden>>)
  /\ Become("serving")
  /\ UNCHANGED <<sockets, fd, daemon, uid, gid>>

(* The catch-all, which matches every URL, comes behind the others.         *)
AddCatchAll ==
  /\ At("router")
  /\ routes' = Append(routes, <<<<>>, Forbidden>>)
  /\ Become("serving")
  /\ UNCHANGED <<sockets, fd, daemon, uid, gid>>

(* A request that is complete and without error (Connection::process).      *)
Serve ==
  /\ pc = "serving"
  /\ request = NoRequest
  /\ \E url \in Url :
       request' = [url |-> url, handler |-> Dispatch(routes, url.text),
                   arguments |-> QueryString(url.text)]
  /\ UNCHANGED <<startVars, options, routes>>

Served ==
  /\ request # NoRequest
  /\ request' = NoRequest
  /\ UNCHANGED <<startVars, options, routes>>

Next ==
  \/ AddRoute
  \/ Start
  \/ Configure
  \/ Bind
  \/ Listen
  \/ SetupFails
  \/ Daemonize
  \/ LookUp
  \/ SetUid
  \/ SetGid
  \/ AddEvent
  \/ AddCatchAll
  \/ Serve
  \/ Served

Spec == Init /\ [][Next]_vars

-----------------------------------------------------------------------------
TypeOK ==
  /\ pc \in {"idle", "configure", "bind", "listen", "fork", "lookup", "setuid", "setgid",
             "event", "router", "serving", "exited"}
  /\ sockets \in Seq({"created", "bound", "listening"})
  /\ fd \in 0..Len(sockets)
  /\ {uid, gid} \subseteq {"root", "www"}
  /\ daemon \in BOOLEAN
  /\ \A i \in 1..Len(routes) : routes[i][2] \in Prefix \cup {Forbidden}

(* Whatever failed in this or an earlier call of start, a server that       *)
(* serves does so on a socket that listens, in the background, and as the   *)
(* user and group, that it was told to.                                     *)
StartedAsTold ==
  pc = "serving" =>
    /\ sockets[fd] = "listening"
    /\ daemon = options.daemonize
    /\ options.user # "" => uid = options.user
    /\ options.group # "" => gid = options.group

(* Every request has a handler: process calls it without a test.  It is the *)
(* program's for every URL that one of its routes matches, the shorter of   *)
(* two if it was added first, and not the catch-all's; a route that is      *)
(* added to a server that serves is the exception, as it comes behind.      *)
Routed ==
  request # NoRequest =>
    LET added == {i \in 1..Len(routes) : \A j \in 1..i : routes[j][2] # Forbidden}
        wanted == {i \in added : IsPrefix(routes[i][2], request.url.text)}
    IN  IF wanted = {} THEN request.handler = Forbidden
        ELSE \E i \in wanted : request.handler = routes[i][2] /\ \A j \in wanted : i <= j

(* A handler sees the arguments that the URL was made from, and no others:  *)
(* the first of each name, with what is behind the first equal sign.  Only  *)
(* an argument with an equal sign and an empty name is left out: of "/a?"   *)
(* and "&&" extract_query_string makes one with no name and no value,       *)
(* although it says "skip arg with empty name".                             *)
ArgumentsAsWritten ==
  request # NoRequest =>
    LET meant == request.url.meant
        named == {i \in 1..Len(meant) : meant[i].name # <<>> \/ meant[i].bare}
    IN  /\ DOMAIN request.arguments = {meant[i].name : i \in named}
        /\ \A i \in named :
             (\A j \in named : j < i => meant[j].name # meant[i].name)
               => request.arguments[meant[i].name] = meant[i].value
=============================================================================
