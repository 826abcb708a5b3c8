------------------------------- MODULE Egress -------------------------------
(***************************************************************************)
(* What a sandbox can reach: the request resolved by module Policy goes to *)
(* the runtime (internal/runtime/docker), which puts the sandbox on a      *)
(* network and, for an allowlist, writes the hosts into the environment of *)
(* its proxy; kpproxy (cmd/kpproxy, internal/proxy) reads them back at     *)
(* every start and decides each request.  Reloads of the policy and        *)
(* crashes of the proxy go on in the meantime.                             *)
(*                                                                         *)
(* A host of the policy is an entry as it is written; what splitCSV and    *)
(* normalize make of it are sites.  The failing calls on the way are in    *)
(* module DockerRuntime; that the pools of a Create's snapshot were warmed *)
(* for the policy of the same snapshot is PoolsMatchPolicy of module       *)
(* Reload.                                                                 *)
(***************************************************************************)
EXTENDS Policy

CONSTANTS
    Sites,      \* host names in lower case
    Targets,    \* what a client in the sandbox asks for, as it spells it
    SiteOf,     \* the site of a target in lower case, Nil without a port
    Reads,      \* Reads[entry]: the sites splitCSV and normalize find in an entry
    DenyHosts   \* defaultDenyHosts, as normalize reads them

ASSUME EgressAssumption ==
    /\ SiteOf \in [Targets -> Sites \cup {Nil}] /\ DenyHosts \subseteq Sites
    /\ Reads \in [Hosts -> SUBSET Sites]

VARIABLES
    box,      \* the sandbox: its network, its limits and its proxy's
              \* KP_ALLOWED_HOSTS, or Nil
    kpproxy   \* the proxy process: its two lists, or Nil when it is not running

egressVars == <<box, kpproxy>>

EgressInit == Init /\ box = Nil /\ kpproxy = Nil

-----------------------------------------------------------------------------
networkOrDefault(mode) == IF mode = "" THEN "none" ELSE mode

Sandbox(net, hosts, limits) == [net |-> net, allowedHosts |-> hosts, limits |-> limits]

(* tryClaim: the sandbox gets a warm container, which was made from the    *)
(* policy and not from the request.                                        *)
Claim ==
    /\ Resolved /\ box = Nil
    /\ out.image \in Pooled(snap) /\ poolMatchesResolved(snap, out)
    /\ box' = Sandbox(networkOrDefault(snap.networkMode), {}, poolSpecFor(snap, out.image))
    /\ UNCHANGED <<vars, kpproxy>>

(* Runtime.Create, for a request that does not match or finds the pool     *)
(* empty: an allowlist gets an internal network and a proxy, any other     *)
(* sandbox the network of the policy.                                      *)
Provision ==
    /\ Resolved /\ box = Nil
    /\ LET limits == [f \in Limits |-> out.limits[f]]
       IN  box' = IF out.egress.mode = "allowlist"
                  THEN Sandbox("internal", out.egress.hosts, limits)
                  ELSE Sandbox(networkOrDefault(out.networkMode), {}, limits)
    /\ UNCHANGED <<vars, kpproxy>>

normalize(entries) == UNION {Reads[e] : e \in entries}

(* kpproxy starts, or is restarted by its restart policy: everything it    *)
(* knows is in its environment.                                            *)
ProxyStart ==
    /\ box # Nil /\ kpproxy = Nil
    /\ box.net = "internal"
    /\ kpproxy' = [allowed |-> normalize(box.allowedHosts), denied |-> DenyHosts]
    /\ UNCHANGED <<vars, box>>

ProxyCrash ==
    /\ kpproxy # Nil
    /\ kpproxy' = Nil
    /\ UNCHANGED <<vars, box>>

(* Mutant of isAllowed: no list means no restriction.                      *)
isAllowedOpen(site, allow) == allow = {} \/ site \in allow

isAllowed(site, allow) == site \in allow
isDenied(site, deny) == site \in deny

(* The handlers of proxy.New: a CONNECT is checked, everything else is     *)
(* answered with 403.                                                      *)
Forwards(method, t) ==
    /\ method = "CONNECT"
    /\ SiteOf[t] # Nil
    /\ ~isDenied(SiteOf[t], kpproxy.denied)
    /\ isAllowed(SiteOf[t], kpproxy.allowed)

(* A request of the sandbox gets out: by the proxy from the internal       *)
(* network, directly from bridge.                                          *)
Reaches(method, t) ==
    \/ box.net = "internal" /\ kpproxy # Nil /\ Forwards(method, t)
    \/ box.net = "bridge"

EgressNext ==
    \/ Next /\ UNCHANGED egressVars
    \/ Claim \/ Provision \/ ProxyStart \/ ProxyCrash

EgressSpec == EgressInit /\ [][EgressNext]_<<vars, egressVars>>

-----------------------------------------------------------------------------
(* With an allowlist, a sandbox reaches exactly the sites that some entry  *)
(* of the most specific egress section of the policy it was created under  *)
(* names, the built-in denials excepted, by CONNECT with a port and while  *)
(* its proxy runs.  global_deny takes away the entries that are written    *)
(* the same way, and no others: a site it names stays open if another      *)
(* entry names it too (GlobalDenyWins).  Without an allowlist, the network *)
(* mode of that policy decides.  Neither a claim from the pool, nor a      *)
(* reload, nor a restart of the proxy changes this.                        *)
EgressIsResolved ==
    box # Nil =>
        LET from == Or(findImage(snap, out.image).egress,
                       Or(ProfileFor(snap, req.profile).egress, snap.egress))
            granted(t) == /\ SiteOf[t] \notin DenyHosts \cup {Nil}
                          /\ \E h \in from.hosts \ snap.deny : SiteOf[t] \in Reads[h]
        IN  \A t \in Targets, method \in {"CONNECT", "GET"} :
                Reaches(method, t) <=>
                    IF from.mode = "allowlist"
                    THEN method = "CONNECT" /\ granted(t) /\ kpproxy # Nil
                    ELSE snap.networkMode = "bridge"

(* Whether it was claimed or cold-started, a sandbox runs with the limits  *)
(* that the order of precedence gives its request: the rule by which the   *)
(* pool was warmed, the one by which a request is matched to it and the    *)
(* one by which Resolve computes the request's own limits differ, also on  *)
(* negative entries, but never in what the sandbox gets.                   *)
LimitsAsResolved ==
    box # Nil => \A f \in Limits :
        box.limits[f] = FirstSet(<<req.limits[f], findImage(snap, out.image).limits[f],
                                   ProfileFor(snap, req.profile).limits[f]>>,
                                 snap.defaults[f])

(* "egress.global_deny always wins, even over allowlists"                  *)
(* (docs/security-model.md): no sandbox with an allowlist reaches a site   *)
(* that an entry of global_deny names.                                     *)
GlobalDenyWins ==
    box # Nil /\ box.net = "internal" =>
        \A t \in Targets, method \in {"CONNECT", "GET"} :
            Reaches(method, t) => SiteOf[t] \notin normalize(snap.deny)
=============================================================================
