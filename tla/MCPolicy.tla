------------------------------ MODULE MCPolicy ------------------------------
(***************************************************************************)
(* Small instances of Policy: one or two image entries, one profile, an    *)
(* egress section in each of the three places, and in every place the      *)
(* values that Validate rejects.                                           *)
(***************************************************************************)
EXTENDS Policy

CONSTANTS
    a, b,       \* image names
    gpu,        \* a profile name
    h1, h2,     \* hosts
    Negative    \* entries may set a negative amount

MCAmounts == {-1, 0, 1, 2, 3, 4} \* 1 in the defaults, 2 in the request
Entry(amount) == {0, amount} \cup IF Negative THEN {-1} ELSE {}

LimitsOf(cpus, ttl) == [f \in Fields |-> IF f = TTL THEN ttl ELSE cpus]
EgressOf(mode, hosts) == [mode |-> mode, hosts |-> hosts]
Closed == EgressOf("none", {})
Open   == EgressOf("allowlist", {h1, h2})

ImageEntry ==
    [name : {a}, limits : {LimitsOf(c, t) : c \in Entry(3), t \in {0, 3}},
     egress : {Nil, Closed, EgressOf("allowlist", {h1})}, pool : {0, 1}]
BadEntry ==
    [name : {NoName, a}, limits : {Unset}, egress : {Nil, EgressOf("all", {})}, pool : {-1, 0}]
ImageLists ==
    {<<>>} \cup {<<e>> : e \in ImageEntry \cup BadEntry}
           \cup {<<e, [name |-> n, limits |-> Unset, egress |-> Nil, pool |-> 0]>> :
                    e \in ImageEntry, n \in {a, b}}

Profile ==
    [image : {a, NoName, b}, limits : {LimitsOf(c, c) : c \in Entry(4)},
     egress : {Nil, EgressOf("", {h2})}]
ProfileMaps == {[n \in {} |-> 0]} \cup [{gpu} -> Profile]

PolicyFile(version, mode, images, profiles, egress, deny) ==
    [version |-> version, networkMode |-> mode, defaults |-> LimitsOf(1, 0),
     images |-> images, profiles |-> profiles, egress |-> egress, deny |-> deny]

MCDefault == PolicyFile(1, "none", <<>>, [n \in {} |-> 0], Closed, {})
MCFiles ==
    {Absent, Malformed} \cup
    {PolicyFile(0, "none", <<>>, [n \in {} |-> 0], Closed, {}),
     PolicyFile(1, "host", <<>>, [n \in {} |-> 0], Closed, {})} \cup
    {PolicyFile(1, "bridge", i, p, e, d) :
        i \in ImageLists, p \in ProfileMaps, e \in {Closed, Open}, d \in {{}, {h1}}}
MCEdits == {Absent, Malformed, PolicyFile(1, "", <<>>, [n \in {} |-> 0], Open, {})}
MCRequests ==
    [profile : {NoName, gpu}, image : {NoName, a, b},
     limits : {Unset, LimitsOf(2, 0)}]
=============================================================================
