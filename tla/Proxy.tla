------------------------------- MODULE Proxy -------------------------------
(***************************************************************************)
(* internal/proxy: the handlers of the proxy, one goroutine per            *)
(* connection, beside the scaler.  A handler knows only the address a      *)
(* connection comes from; it looks it up once in the store and logs what   *)
(* it finds, while containers come and go and their addresses are reused.  *)
(* A CONNECT request becomes a tunnel that two more goroutines copy.       *)
(*                                                                         *)
(*   none      no connection                                               *)
(*   accepted  a request has arrived, its handler has not looked it up     *)
(*   forward   net.DialTimeout and Hijack, or RoundTrip and the answer     *)
(*   tunnel    both goroutines of the tunnel run, or one of them           *)
(***************************************************************************)
EXTENDS Scaler

CONSTANTS Conns,   \* bound: connections at a time
          Unknown  \* "unknown runner"

VARIABLE conns

proxyVars == <<vars, conns>>

Ends == {"client", "target"}

(* src, id and logged are history, until the tunnel opens: the container   *)
(* that connects, and the name in the log.  copies: the ends that a        *)
(* goroutine reads; open: the ends not closed; gone: those of them whose   *)
(* peer has closed or died.                                                *)
Connection ==
  [phase : {"none", "accepted", "forward", "tunnel"},
   src : RunnerNames \cup {NoRunner}, id : Nat, ip : IPs \cup {NoIP},
   logged : RunnerNames \cup {Unknown, NoRunner},
   gone : SUBSET Ends, copies : SUBSET Ends, open : SUBSET Ends]

NoConnection ==
  [phase |-> "none", src |-> NoRunner, id |-> 0, ip |-> NoIP, logged |-> NoRunner,
   gone |-> {}, copies |-> {}, open |-> {}]

ASSUME ProxyAssumption == Unknown \notin RunnerNames

ProxyInit == Init /\ conns = [c \in Conns |-> NoConnection]

(* A process in the container opens a connection; the proxy is the         *)
(* container's https_proxy and http_proxy.                                 *)
Connect(c, n) ==
  /\ conns[c].phase = "none"
  /\ Running(n)
  /\ conns' = [conns EXCEPT ![c] =
                 [NoConnection EXCEPT !.phase = "accepted", !.src = n, !.id = docker[n].id,
                                      !.ip = docker[n].ip]]

(* GetByContainerIP: the first entry in map order, that is any of them.    *)
EntriesAt(ip) == {n \in RunnerNames : Tracked(runners, n) /\ runners[n].ip = ip}

(* Mutant: the address is not compared. *)
AttributedAny(ip, name) ==
  LET all == {n \in RunnerNames : Tracked(runners, n)}
  IN name \in all \/ (all = {} /\ name = Unknown)

Attributed(ip, name) == name \in EntriesAt(ip) \/ (EntriesAt(ip) = {} /\ name = Unknown)

(* The start of handleConnect or of handleHTTP. *)
Lookup(c) ==
  /\ conns[c].phase = "accepted"
  /\ \E name \in RunnerNames \cup {Unknown} :
       /\ Attributed(conns[c].ip, name)
       /\ conns' = [conns EXCEPT ![c] = [conns[c] EXCEPT !.logged = name, !.phase = "forward"]]

(* CONNECT: the target does not answer, or the client connection cannot be *)
(* taken over, and then the target's is closed.  handleHTTP copies the     *)
(* response or answers 502.                                                *)
HandlerEnds(c) ==
  /\ conns[c].phase = "forward"
  /\ conns' = [conns EXCEPT ![c] = NoConnection]

TunnelOpens(c) ==
  /\ conns[c].phase = "forward"
  /\ conns' = [conns EXCEPT ![c] =
                 [NoConnection EXCEPT !.phase = "tunnel", !.copies = Ends, !.open = Ends]]

(* The peer at an end closes the connection, or is gone. *)
PeerEnds(c, end) ==
  /\ end \in conns[c].open \ conns[c].gone
  /\ conns' = [conns EXCEPT ![c] = [conns[c] EXCEPT !.gone = conns[c].gone \cup {end}]]

(* Mutant: each goroutine closes the connection it reads. *)
CopyEndsOwn(c, end) ==
  /\ conns[c].phase = "tunnel" /\ end \in conns[c].copies
  /\ end \notin conns[c].open \ conns[c].gone
  /\ conns' = [conns EXCEPT ![c] =
                 IF conns[c].copies = {end} THEN NoConnection
                 ELSE [@ EXCEPT !.copies = @ \ {end}, !.open = @ \ {end},
                                !.gone = @ \ {end}]]

(* io.Copy from one end returns when its peer has closed or when the other *)
(* goroutine has closed it; the deferred calls close both ends.            *)
CopyEnds(c, end) ==
  /\ conns[c].phase = "tunnel" /\ end \in conns[c].copies
  /\ end \notin conns[c].open \ conns[c].gone
  /\ conns' = [conns EXCEPT ![c] =
                 IF conns[c].copies = {end} THEN NoConnection
                 ELSE [@ EXCEPT !.copies = conns[c].copies \ {end}, !.open = {}, !.gone = {}]]

Handler(c) == Lookup(c) \/ HandlerEnds(c) \/ TunnelOpens(c) \/ \E e \in Ends : CopyEnds(c, e)

ProxyStep ==
  \E c \in Conns :
    \/ \E n \in RunnerNames : Connect(c, n)
    \/ Lookup(c) \/ HandlerEnds(c) \/ TunnelOpens(c)
    \/ \E e \in Ends : PeerEnds(c, e) \/ CopyEnds(c, e)

ProxyNext ==
  \/ ProxyStep /\ UNCHANGED vars
  \/ Next /\ UNCHANGED conns

ProxySpec == ProxyInit /\ [][ProxyNext]_proxyVars

(* Every goroutine runs; nothing makes a peer close its connection. *)
ProxyFairSpec ==
  ProxySpec /\ \A c \in Conns : WF_proxyVars(Handler(c) /\ UNCHANGED vars)
-----------------------------------------------------------------------------
ProxyTypeOK == TypeOK /\ conns \in [Conns -> Connection]

(* The container that connected is still the one that runs under its name. *)
SourceRuns(c) == Running(conns[c].src) /\ docker[conns[c].src].id = conns[c].id

(* While two runners run, the traffic of one is never logged as the        *)
(* other's, whatever entries are stale and whichever addresses are reused. *)
NeverNamesAnother ==
  [][\A c \in Conns, n \in RunnerNames :
       /\ Lookup(c) /\ SourceRuns(c)
       /\ conns'[c].logged = n /\ n # conns[c].src
       => ~(Running(n) /\ docker[n].id = runners[n].id)]_proxyVars

(* "This allows the proxy to identify runners at any point during their    *)
(* lifecycle" (README.md:275): once the store has the runner, no           *)
(* connection it makes is logged as an unknown runner's.                   *)
TrackedNotUnknown ==
  [][\A c \in Conns :
       /\ Lookup(c) /\ SourceRuns(c)
       /\ runners[conns[c].src].status # "absent" /\ runners[conns[c].src].id = conns[c].id
       => conns'[c].logged # Unknown]_proxyVars

(* When either peer of a tunnel is gone, both connections are closed and   *)
(* both goroutines end, although only one of them notices by itself.       *)
TunnelCloses ==
  \A c \in Conns : conns[c].phase = "tunnel" /\ conns[c].gone # {} ~> conns[c].phase = "none"

(* "Every HTTPS connection from every runner is logged with full           *)
(* attribution" (README.md:239).                                           *)
FullAttribution == \A c \in Conns : conns[c].logged \in {NoRunner, conns[c].src}
=============================================================================
