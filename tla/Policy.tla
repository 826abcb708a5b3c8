------------------------------- MODULE Policy -------------------------------
(***************************************************************************)
(* The policy file (internal/policy): Load and Validate when kpd starts    *)
(* and on SIGHUP, Resolve for one request, and the two places of the       *)
(* manager that work on the same policy without going through Resolve:     *)
(* buildPools, which decides what the warm pools hold, and                 *)
(* poolMatchesResolved, which decides who may claim from them.             *)
(*                                                                         *)
(* cpus, memory_mb and ttl are merged by the same rule; they are the       *)
(* Fields of a limits function, and 0 is "not set".  Host names are model  *)
(* values, a list of hosts is a set.                                       *)
(***************************************************************************)
EXTENDS Integers, Sequences, FiniteSets

CONSTANTS
    Fields,    \* the numeric fields of an entry
    TTL,       \* the one of them that is no resource limit
    NoName,    \* the empty string, where a name is expected
    Nil,       \* a nil *Egress; no policy, request or result yet
    Absent,    \* there is no policy file
    Malformed, \* the file cannot be read or parsed
    Denied,    \* Resolve's ErrPolicyViolation
    Files,     \* the contents the file may have when kpd starts
    Edits,     \* the contents it may have later
    MaxEdits,  \* bound: changes of the file
    Required,  \* KP_REQUIRE_POLICY
    Default,   \* policy.Default()
    Requests,
    Hosts, Names, Amounts

ASSUME PolicyAssumption ==
    /\ TTL \in Fields /\ Amounts \subseteq Int /\ NoName \notin Names
    /\ MaxEdits \in Nat /\ Required \in BOOLEAN
    /\ Nil \notin {Absent, Malformed, Denied}
    /\ Absent \notin {Malformed, Denied} /\ Malformed # Denied

(* What the YAML decoder can make of a file (types Egress, Image, Profile  *)
(* and Policy), what a request is and what Resolve returns.                *)
LimitsType  == [Fields -> Amounts]
EgressType  == [mode : STRING, hosts : SUBSET Hosts]
ImageType   == [name : Names \cup {NoName}, limits : LimitsType,
                egress : EgressType \cup {Nil}, pool : Int]
ProfileType == [image : Names \cup {NoName}, limits : LimitsType,
                egress : EgressType \cup {Nil}]
ResultType  == [image : Names, limits : LimitsType, egress : EgressType,
                networkMode : STRING]

IsPolicy(p) ==
    /\ p.networkMode \in STRING /\ p.defaults \in LimitsType
    /\ p.images \in Seq(ImageType)
    /\ \A n \in DOMAIN p.profiles : p.profiles[n] \in ProfileType
    /\ p.egress \in EgressType /\ p.deny \subseteq Hosts

ASSUME ShapeAssumption ==
    /\ 0 \in Amounts /\ Nil \notin ResultType \cup EgressType /\ Denied \notin ResultType
    /\ \A p \in (Files \cup Edits \cup {Default}) \ {Absent, Malformed} : IsPolicy(p) /\ p # Nil
    /\ Nil \notin Requests
    /\ \A r \in Requests : r.image \in Names \cup {NoName} /\ r.limits \in LimitsType

VARIABLES
    file,    \* the file at KP_POLICY_FILE
    policy,  \* the policy kpd runs with, or Nil
    kpd,     \* "start", "checked", "serving" or "refused"
    req,     \* the request, or Nil
    snap,    \* the policy the request was resolved with
    out,     \* what Resolve returned, or Nil
    edits    \* changes of the file so far

kpdVars == <<policy, kpd>>
createVars == <<req, snap, out>>
vars == <<file, edits, kpdVars, createVars>>

Init ==
    /\ file \in Files
    /\ policy = Nil /\ kpd = "start" /\ edits = 0
    /\ req = Nil /\ snap = Nil /\ out = Nil

-----------------------------------------------------------------------------
Unset == [f \in Fields |-> 0]
Or(x, y) == IF x # Nil THEN x ELSE y

ImageNames(p) == {p.images[i].name : i \in 1..Len(p.images)}

EgressValid(e) == e = Nil \/ e.mode \in {"", "none", "allowlist"}
Proxied(e) == e # Nil /\ e.mode \notin {"", "none"}

ImagesValid(p) ==
    /\ NoName \notin ImageNames(p)
    /\ Cardinality(ImageNames(p)) = Len(p.images) \* no duplicates
    /\ \A i \in 1..Len(p.images) :
          LET img == p.images[i]
          IN  EgressValid(img.egress) /\ img.pool >= 0 /\ ~(img.pool > 0 /\ Proxied(img.egress))

(* Mutant of ProfilesValid: the profile's image need not be listed.        *)
ProfilesUnlisted(p) ==
    \A n \in DOMAIN p.profiles :
        p.profiles[n].image # NoName /\ EgressValid(p.profiles[n].egress)

ProfilesValid(p) ==
    \A n \in DOMAIN p.profiles :
        LET prof == p.profiles[n]
        IN  /\ prof.image # NoName
            /\ p.images # <<>> => prof.image \in ImageNames(p)
            /\ EgressValid(prof.egress)

Validate(p) ==
    /\ p.version = 1
    /\ ImagesValid(p) /\ ProfilesValid(p) /\ EgressValid(p.egress)
    /\ p.networkMode \in {"", "none", "bridge"}

ASSUME DefaultAssumption == Default \notin {Absent, Malformed} /\ Validate(Default)

(* Load: a missing file means the default policy; Nil stands for any other *)
(* error.                                                                  *)
Load(f) ==
    IF f = Absent THEN Default
    ELSE IF f # Malformed /\ Validate(f) THEN f ELSE Nil

(* Mutant of RequireFile: KP_REQUIRE_POLICY is not looked at.              *)
RequireNothing ==
    /\ kpd = "start" /\ kpd' = "checked"
    /\ UNCHANGED <<file, edits, policy, createVars>>

(* serve: with KP_REQUIRE_POLICY there has to be a file (os.Stat).         *)
RequireFile ==
    /\ kpd = "start"
    /\ kpd' = IF Required /\ file = Absent THEN "refused" ELSE "checked"
    /\ UNCHANGED <<file, edits, policy, createVars>>

(* serve: the file is loaded, in a step of its own.                        *)
Start ==
    /\ kpd = "checked"
    /\ kpd' = IF Load(file) = Nil THEN "refused" ELSE "serving"
    /\ policy' = Load(file)
    /\ UNCHANGED <<file, edits, createVars>>

(* The operator, or a tool that replaces the file in two steps.            *)
Edit ==
    /\ kpd \in {"checked", "serving"} /\ edits < MaxEdits
    /\ edits' = edits + 1
    /\ file' \in Edits
    /\ UNCHANGED <<kpdVars, createVars>>

(* reloadOnHUP: an error of Load, or of ReplacePolicy (module Reload),     *)
(* leaves the policy as it is.                                             *)
reloadOnHUP ==
    /\ kpd = "serving"
    /\ policy' \in {Or(Load(file), policy), policy}
    /\ UNCHANGED <<file, edits, kpd, createVars>>

-----------------------------------------------------------------------------
(* The profile and the image entry of a name, with nothing set if there is *)
(* none; findImage takes the first of the list.                            *)
ProfileFor(p, name) ==
    IF name \in DOMAIN p.profiles THEN p.profiles[name]
    ELSE [image |-> NoName, limits |-> Unset, egress |-> Nil]

findImage(p, name) ==
    LET at == {i \in 1..Len(p.images) : p.images[i].name = name}
    IN  IF at = {} THEN [name |-> NoName, limits |-> Unset, egress |-> Nil, pool |-> 0]
        ELSE p.images[CHOOSE i \in at : \A j \in at : i <= j]

(* Mutant of Override: a negative amount counts as set.                    *)
OverrideNonZero(base, over) == [f \in Fields |-> IF over[f] # 0 THEN over[f] ELSE base[f]]

Override(base, over) == [f \in Fields |-> IF over[f] > 0 THEN over[f] ELSE base[f]]

applyGlobalDeny(hosts, deny) == hosts \ deny

Resolve(p, r) ==
    LET prof   == ProfileFor(p, r.profile)
        name   == IF r.image # NoName THEN r.image ELSE prof.image
        img    == findImage(p, name)
        limits == Override(Override(p.defaults, prof.limits), img.limits)
        egress == Or(img.egress, Or(prof.egress, p.egress))
    IN  IF \/ r.profile # NoName /\ r.profile \notin DOMAIN p.profiles
           \/ name = NoName
           \/ p.images # <<>> /\ name \notin ImageNames(p)
        THEN Denied
        ELSE [image  |-> name,
              limits |-> Override(limits, r.limits),
              egress |-> [mode  |-> egress.mode,
                          hosts |-> applyGlobalDeny(egress.hosts, p.deny)],
              networkMode |-> p.networkMode]

(* Manager.Create resolves the request.                                    *)
Create(r) ==
    /\ kpd = "serving" /\ req = Nil
    /\ req' = r /\ snap' = policy
    /\ out' = Resolve(policy, r)
    /\ UNCHANGED <<file, edits, kpdVars>>

-----------------------------------------------------------------------------
(* The limits a container is made with.                                    *)
Limits == Fields \ {TTL}

(* buildPools and poolSpecFor: the images with a pool, and the limits of   *)
(* what is in it.  Warm containers have no egress.  cmp.Or takes the entry *)
(* when it is not zero, negative or not.                                   *)
Pooled(p) ==
    {n \in ImageNames(p) : findImage(p, n).pool > 0 /\ ~Proxied(findImage(p, n).egress)}
poolSpecFor(p, name) ==
    LET img == findImage(p, name)
    IN  [f \in Limits |-> IF img.limits[f] # 0 THEN img.limits[f] ELSE p.defaults[f]]

(* Mutant of poolMatchesResolved: an entry counts as set by the rule of    *)
(* Resolve, not by that of poolSpecFor.                                    *)
poolMatchesPositive(p, o) ==
    LET expected == Override(p.defaults, findImage(p, o.image).limits)
    IN  /\ o.egress.mode \in {"", "none"}
        /\ o.image \in ImageNames(p)
        /\ \A f \in Limits : o.limits[f] = expected[f]

(* The same cmp.Or once more, against what Resolve returned.               *)
poolMatchesResolved(p, o) ==
    LET img == findImage(p, o.image)
    IN  /\ o.egress.mode \in {"", "none"}
        /\ o.image \in ImageNames(p)
        /\ \A f \in Limits : \/ img.limits[f] # 0 /\ o.limits[f] = img.limits[f]
                             \/ img.limits[f] = 0 /\ o.limits[f] = p.defaults[f]

Next == RequireFile \/ Start \/ Edit \/ reloadOnHUP \/ \E r \in Requests : Create(r)

Spec == Init /\ [][Next]_vars

-----------------------------------------------------------------------------
Resolved == out \notin {Nil, Denied}

(* The variables keep their types.                                         *)
TypeOK ==
    /\ kpd \in {"start", "checked", "serving", "refused"}
    /\ kpd = "serving" <=> policy # Nil
    /\ req \in Requests \cup {Nil} /\ (out # Nil <=> req # Nil) /\ edits \in 0..MaxEdits
    /\ Resolved => /\ out.image \in Names /\ out.limits \in [Fields -> Amounts]
                   /\ out.egress.mode \in {"", "none", "allowlist"}
                   /\ out.egress.hosts \subseteq Hosts

(* A file may say what policy.Default() says.                              *)
DefaultIsWritten == Default \in Files

(* kpd always serves under a policy that has passed Validate, whatever the *)
(* file becomes between a check, a load and a SIGHUP; with                 *)
(* KP_REQUIRE_POLICY that is the default policy only if the file has gone  *)
(* since the check at start (or the file itself says the same).            *)
PolicyInForce ==
    kpd = "serving" =>
        /\ Validate(policy)
        /\ Required /\ policy = Default /\ ~DefaultIsWritten => edits > 0

FirstSet(amounts, default) ==
    LET set == {i \in 1..Len(amounts) : amounts[i] > 0}
    IN  IF set = {} THEN default ELSE amounts[CHOOSE i \in set : \A j \in set : i <= j]

(* "Precedence (most -> least specific): request -> image entry -> profile *)
(* -> defaults" (Resolve): every field is the first positive one in that   *)
(* order, an image taken from the profile and negative amounts included.   *)
ResolvedByPrecedence ==
    Resolved => \A f \in Fields :
        out.limits[f] = FirstSet(<<req.limits[f], findImage(snap, out.image).limits[f],
                                   ProfileFor(snap, req.profile).limits[f]>>,
                                 snap.defaults[f])

(* "Empty fields fall through to profile, image, and defaults in that      *)
(* order" (the comment of Request).                                        *)
FallsThroughToProfile ==
    Resolved => \A f \in Fields :
        out.limits[f] = FirstSet(<<req.limits[f], ProfileFor(snap, req.profile).limits[f],
                                   findImage(snap, out.image).limits[f]>>,
                                 snap.defaults[f])

(* Every profile of a policy that passed Validate can be used by name      *)
(* alone: Resolve never denies what Validate has let through.              *)
ProfilesResolve ==
    kpd = "serving" => \A n \in DOMAIN policy.profiles :
        Resolve(policy, [profile |-> n, image |-> NoName, limits |-> Unset]) # Denied


(* "Validation rejects pool: N combined with egress.mode: allowlist at     *)
(* policy load time" (docs/warm-pool.md): a plain request for an image     *)
(* with a pool does not resolve to an allowlist.                           *)
PoolExcludesAllowlist ==
    Resolved /\ req.profile = NoName /\ out.image \in Pooled(snap)
        => out.egress.mode # "allowlist"

(* "In production set KP_REQUIRE_POLICY=1 so kpd refuses to start if the   *)
(* file is missing - silent fallback to permissive defaults is the kind of *)
(* incident you don't want" (docs/deployment.md): with it, kpd never       *)
(* serves the default policy.                                              *)
RequiredNeverDefaults == Required => policy # Default
=============================================================================
