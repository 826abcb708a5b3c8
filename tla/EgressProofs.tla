---------------------------- MODULE EgressProofs -----------------------------
(***************************************************************************)
(* What kpd resolves and what a sandbox can reach, for every policy file,  *)
(* every request and every number of edits, reloads and proxy crashes.     *)
(* The policy's own invariant comes first; Egress adds to the variables of *)
(* Policy and changes none of them, so it inherits what is proved there.   *)
(***************************************************************************)
EXTENDS Egress, TLAPS, WellFoundedInduction

-----------------------------------------------------------------------------
(* Facts about the operators of Policy.                                    *)

(* A set of naturals that is not empty has a least element.                *)
LEMMA LeastNat ==
    ASSUME NEW S \in SUBSET Nat, S # {}
    PROVE  \E i \in S : \A j \in S : i <= j
<1> DEFINE R == {p \in Nat \X Nat : p[1] < p[2]}
<1>1. IsWellFoundedOn(R, Nat)
  BY NatLessThanWellFounded, Zenon DEF OpToRel
<1> HIDE DEF R
<1>2. PICK x \in S : \A y \in S : <<y, x>> \notin R
  BY <1>1, WFMin
<1>3. ASSUME NEW y \in S PROVE x <= y
  <2>1. x \in Nat /\ y \in Nat
    OBVIOUS
  <2>2. <<y, x>> \in Nat \X Nat /\ <<y, x>>[1] = y /\ <<y, x>>[2] = x
    BY <2>1
  <2>3. ~(y < x)
    BY <1>2, <2>2 DEF R
  <2> QED
    BY <2>1, <2>3
<1> QED
  BY <1>3

(* findImage returns an entry of the list or the empty one.                *)
LEMMA FindImageFacts ==
    ASSUME NEW p, IsPolicy(p), NEW n
    PROVE  /\ findImage(p, n).limits \in LimitsType
           /\ findImage(p, n).egress \in EgressType \cup {Nil}
           /\ Validate(p) => EgressValid(findImage(p, n).egress)
<1> DEFINE at == {i \in 1..Len(p.images) : p.images[i].name = n}
           least == CHOOSE i \in at : \A j \in at : i <= j
<1>1. p.images \in Seq(ImageType) /\ Len(p.images) \in Nat
  BY DEF IsPolicy
<1>2. CASE at = {}
  <2>1. findImage(p, n) = [name |-> NoName, limits |-> Unset, egress |-> Nil, pool |-> 0]
    BY <1>2 DEF findImage
  <2>2. Unset \in LimitsType
    BY ShapeAssumption DEF Unset, LimitsType
  <2> QED
    BY <2>1, <2>2 DEF EgressValid
<1>3. CASE at # {}
  <2>1. least \in at
    <3>1. at \in SUBSET Nat
      BY <1>1
    <3>2. \E i \in at : \A j \in at : i <= j
      BY <1>3, <3>1, LeastNat
    <3> QED
      BY <3>2
  <2>2. findImage(p, n) = p.images[least]
    BY <1>3 DEF findImage
  <2>3. least \in 1..Len(p.images)
    BY <2>1
  <2> HIDE DEF least, at
  <2>4. p.images[least] \in ImageType
    BY <1>1, <2>3
  <2>5. Validate(p) => EgressValid(p.images[least].egress)
    BY <2>3 DEF Validate, ImagesValid
  <2> QED
    BY <2>2, <2>4, <2>5 DEF ImageType
<1> QED
  BY <1>2, <1>3

(* So does the lookup of a profile.                                        *)
LEMMA ProfileForFacts ==
    ASSUME NEW p, IsPolicy(p), NEW n
    PROVE  /\ ProfileFor(p, n).limits \in LimitsType
           /\ ProfileFor(p, n).egress \in EgressType \cup {Nil}
           /\ ProfileFor(p, n).image \in Names \cup {NoName}
           /\ Validate(p) => EgressValid(ProfileFor(p, n).egress)
<1>1. Unset \in LimitsType
  BY ShapeAssumption DEF Unset, LimitsType
<1>2. CASE n \in DOMAIN p.profiles
  BY <1>2 DEF ProfileFor, IsPolicy, ProfileType, Validate, ProfilesValid
<1>3. CASE n \notin DOMAIN p.profiles
  BY <1>1, <1>3 DEF ProfileFor, EgressValid
<1> QED
  BY <1>2, <1>3

(* Override takes each field from one of its arguments.                    *)
LEMMA OverrideFacts ==
    ASSUME NEW b \in LimitsType, NEW o \in LimitsType
    PROVE  /\ Override(b, o) \in LimitsType
           /\ \A f \in Fields : Override(b, o)[f] = IF o[f] > 0 THEN o[f] ELSE b[f]
BY DEF Override, LimitsType

(* The parts of a result.                                                  *)
ImageOf(p, r) ==
    IF r.image # NoName THEN r.image ELSE ProfileFor(p, r.profile).image
EgressFor(p, r, n) ==
    Or(findImage(p, n).egress, Or(ProfileFor(p, r.profile).egress, p.egress))

(* The most specific egress section is a section with a valid mode.        *)
LEMMA EgressForFacts ==
    ASSUME NEW p, IsPolicy(p), Validate(p), NEW r, NEW n
    PROVE  /\ EgressFor(p, r, n) \in EgressType
           /\ EgressFor(p, r, n).mode \in {"", "none", "allowlist"}
<1>1. /\ findImage(p, n).egress \in EgressType \cup {Nil}
      /\ EgressValid(findImage(p, n).egress)
  BY FindImageFacts
<1>2. /\ ProfileFor(p, r.profile).egress \in EgressType \cup {Nil}
      /\ EgressValid(ProfileFor(p, r.profile).egress)
  BY ProfileForFacts
<1>3. p.egress \in EgressType /\ EgressValid(p.egress) /\ p.egress # Nil
  BY ShapeAssumption DEF IsPolicy, Validate
<1> QED
  BY <1>1, <1>2, <1>3 DEF EgressFor, Or, EgressValid

(* What Resolve returns unless it denies the request.                      *)
LEMMA ResolveFacts ==
    ASSUME NEW p, IsPolicy(p), Validate(p), NEW r \in Requests,
           Resolve(p, r) # Denied
    PROVE  LET o == Resolve(p, r)
               n == ImageOf(p, r)
           IN  /\ o \in ResultType
               /\ o.image = n /\ o.networkMode = p.networkMode
               /\ o.limits = Override(Override(Override(p.defaults,
                                ProfileFor(p, r.profile).limits),
                                findImage(p, n).limits), r.limits)
               /\ o.egress.mode = EgressFor(p, r, n).mode
               /\ o.egress.hosts = EgressFor(p, r, n).hosts \ p.deny
<1> DEFINE n == ImageOf(p, r)
           e == EgressFor(p, r, n)
           lim == Override(Override(Override(p.defaults,
                      ProfileFor(p, r.profile).limits), findImage(p, n).limits), r.limits)
<1>1. Resolve(p, r) = [image |-> n, limits |-> lim,
                       egress |-> [mode |-> e.mode, hosts |-> e.hosts \ p.deny],
                       networkMode |-> p.networkMode]
  BY DEF Resolve, ImageOf, EgressFor, applyGlobalDeny
<1>2. n \in Names
  <2>1. n # NoName
    BY DEF Resolve, ImageOf
  <2>2. r.image \in Names \cup {NoName}
    BY ShapeAssumption
  <2> QED
    BY <2>1, <2>2, ProfileForFacts DEF ImageOf
<1>3. lim \in LimitsType
  <2>1. p.defaults \in LimitsType /\ r.limits \in LimitsType
    BY ShapeAssumption DEF IsPolicy
  <2>2. findImage(p, n).limits \in LimitsType /\ ProfileFor(p, r.profile).limits \in LimitsType
    BY FindImageFacts, ProfileForFacts
  <2> QED
    BY <2>1, <2>2, OverrideFacts
<1>4. e \in EgressType
  BY EgressForFacts
<1>5. p.networkMode \in STRING
  BY DEF IsPolicy
<1> HIDE DEF n, e, lim
<1>6. [mode |-> e.mode, hosts |-> e.hosts \ p.deny] \in EgressType
  BY <1>4 DEF EgressType
<1>7. Resolve(p, r) \in ResultType
  BY <1>1, <1>2, <1>3, <1>5, <1>6 DEF ResultType
<1> QED
  BY <1>1, <1>7 DEF n, e, lim

-----------------------------------------------------------------------------
(* The file kpd looks at is one it may have; it was there at the check of  *)
(* KP_REQUIRE_POLICY and is only missing later if somebody edited it.      *)
FileKnown ==
    /\ file \in Files \cup Edits
    /\ edits = 0 => file \in Files
    /\ Required /\ kpd \in {"checked", "serving"} /\ edits = 0 => file # Absent

(* The answer to a request was resolved under a policy that was in force.  *)
OutIsResolved ==
    out # Nil => /\ req \in Requests /\ IsPolicy(snap) /\ Validate(snap)
                 /\ out = Resolve(snap, req)

(* The inductive invariant of Policy.                                      *)
PInv ==
    /\ TypeOK /\ FileKnown /\ PolicyInForce /\ OutIsResolved
    /\ kpd = "serving" => IsPolicy(policy)

(* Load returns a valid policy, or Nil; the default only without a file.   *)
LEMMA LoadFacts ==
    ASSUME NEW f \in Files \cup Edits
    PROVE  Load(f) # Nil => /\ Validate(Load(f)) /\ IsPolicy(Load(f))
                            /\ f # Absent => Load(f) = f
BY PolicyAssumption, ShapeAssumption, DefaultAssumption DEF Load

(* Before kpd has looked at anything.                                      *)
LEMMA InitPInv == Init => PInv
BY PolicyAssumption DEF Init, PInv, TypeOK, FileKnown, PolicyInForce,
   OutIsResolved, Resolved

(* Every step of kpd, of the operator and of a request preserves it.       *)
LEMMA NextPInv == PInv /\ [Next]_vars => PInv'
<1> SUFFICES ASSUME PInv, [Next]_vars PROVE PInv'
  OBVIOUS
<1> USE PolicyAssumption DEF PInv
<1>0. edits \in 0..MaxEdits /\ MaxEdits \in Nat
  BY Zenon DEF TypeOK
<1>1. CASE RequireFile
  <2>1. kpd' # "serving" /\ policy' = policy /\ kpd # "serving"
    BY <1>1 DEF RequireFile
  <2> QED
    BY <1>1, <2>1 DEF RequireFile, TypeOK, FileKnown, PolicyInForce, OutIsResolved,
       Resolved, createVars
<1>2. CASE Start
  <2>1. Load(file) # Nil => /\ Validate(Load(file)) /\ IsPolicy(Load(file))
                            /\ file # Absent => Load(file) = file
    BY LoadFacts DEF FileKnown
  <2>2. UNCHANGED <<file, edits, req, snap, out>>
    BY <1>2 DEF Start, createVars
  <2>3. \/ kpd' = "refused" /\ policy' = Nil
        \/ kpd' = "serving" /\ policy' = Load(file) /\ policy' # Nil
    BY <1>2 DEF Start
  <2>4. TypeOK'
    BY <2>2, <2>3 DEF TypeOK, Resolved
  <2>5. PolicyInForce'
    <3> SUFFICES ASSUME kpd' = "serving"
                 PROVE  /\ Validate(policy')
                        /\ Required /\ policy' = Default /\ ~DefaultIsWritten => edits > 0
      BY <2>2 DEF PolicyInForce, DefaultIsWritten
    <3>1. policy' = Load(file) /\ policy' # Nil
      BY <2>3
    <3>2. Required /\ edits = 0 => policy' \in Files
      BY <1>2, <2>1, <3>1 DEF Start, FileKnown
    <3>3. edits \in Nat
      BY <1>0
    <3> QED
      BY <2>1, <3>1, <3>2, <3>3 DEF DefaultIsWritten
  <2>6. FileKnown' /\ OutIsResolved' /\ (kpd' = "serving" => IsPolicy(policy'))
    BY <1>2, <2>1, <2>2, <2>3 DEF Start, FileKnown, OutIsResolved
  <2> QED
    BY <2>4, <2>5, <2>6
<1>3. CASE Edit
  <2>1. edits' \in 0..MaxEdits /\ edits' > 0 /\ file' \in Files \cup Edits
    BY <1>0, <1>3 DEF Edit
  <2>2. UNCHANGED <<policy, kpd, req, snap, out>>
    BY <1>3 DEF Edit, kpdVars, createVars
  <2>3. TypeOK'
    BY <2>1, <2>2 DEF TypeOK, Resolved
  <2>4. FileKnown'
    BY <2>1 DEF FileKnown
  <2>5. PolicyInForce' /\ OutIsResolved' /\ (kpd' = "serving" => IsPolicy(policy'))
    BY <2>1, <2>2 DEF PolicyInForce, OutIsResolved
  <2> QED
    BY <2>3, <2>4, <2>5
<1>4. CASE reloadOnHUP
  <2>1. Load(file) # Nil => /\ Validate(Load(file)) /\ IsPolicy(Load(file))
                            /\ file # Absent => Load(file) = file
    BY LoadFacts DEF FileKnown
  <2>2. kpd = "serving" /\ UNCHANGED <<file, edits, kpd, req, snap, out>>
    BY <1>4 DEF reloadOnHUP, createVars
  <2>3. policy' = policy \/ (policy' = Load(file) /\ Load(file) # Nil)
    BY <1>4 DEF reloadOnHUP, Or
  <2>4. policy' # Nil
    BY <2>2, <2>3 DEF TypeOK
  <2>5. TypeOK'
    BY <2>2, <2>4 DEF TypeOK, Resolved
  <2>6. PolicyInForce'
    <3>1. Validate(policy')
      BY <2>1, <2>2, <2>3 DEF PolicyInForce
    <3>2. CASE policy' = policy
      BY <2>2, <3>2 DEF PolicyInForce
    <3>3. CASE policy' = Load(file) /\ Load(file) # Nil
      <4>1. Required /\ edits = 0 => policy' \in Files
        BY <2>1, <2>2, <3>3 DEF FileKnown
      <4>2. edits \in Nat
        BY <1>0
      <4> QED
        BY <2>2, <3>1, <4>1, <4>2 DEF PolicyInForce, DefaultIsWritten
    <3> QED
      BY <2>3, <3>2, <3>3
  <2>7. FileKnown' /\ OutIsResolved' /\ IsPolicy(policy')
    BY <2>1, <2>2, <2>3 DEF FileKnown, OutIsResolved
  <2> QED
    BY <2>5, <2>6, <2>7
<1>5. ASSUME NEW r \in Requests, Create(r) PROVE PInv'
  <2>1. /\ kpd = "serving" /\ IsPolicy(policy) /\ Validate(policy)
        /\ req' = r /\ snap' = policy /\ out' = Resolve(policy, r)
        /\ UNCHANGED <<file, edits, policy, kpd>>
    BY <1>5 DEF Create, kpdVars, PolicyInForce
  <2>2. out' # Denied => /\ out' \in ResultType
                         /\ out'.egress.mode \in {"", "none", "allowlist"}
    <3> SUFFICES ASSUME Resolve(policy, r) # Denied
                 PROVE  /\ Resolve(policy, r) \in ResultType
                        /\ Resolve(policy, r).egress.mode \in {"", "none", "allowlist"}
      BY <2>1
    <3>1. /\ Resolve(policy, r) \in ResultType
          /\ Resolve(policy, r).egress.mode
                = EgressFor(policy, r, ImageOf(policy, r)).mode
      BY <2>1, ResolveFacts
    <3> QED
      BY <2>1, <3>1, EgressForFacts
  <2>3. out' # Nil /\ req' # Nil
    BY <2>1, <2>2, ShapeAssumption
  <2>4. TypeOK'
    BY <2>1, <2>2, <2>3 DEF TypeOK, Resolved, ResultType, LimitsType, EgressType
  <2>5. OutIsResolved'
    BY <2>1 DEF OutIsResolved
  <2> QED
    BY <2>1, <2>4, <2>5 DEF FileKnown, PolicyInForce
<1>6. CASE UNCHANGED vars
  BY <1>6 DEF vars, kpdVars, createVars, TypeOK, FileKnown, PolicyInForce,
     OutIsResolved, Resolved
<1> QED
  BY <1>1, <1>2, <1>3, <1>4, <1>5, <1>6 DEF Next

(* The invariant holds in every reachable state.                           *)
THEOREM PolicyInductive == Spec => []PInv
<1>1. Init => PInv
  BY InitPInv
<1>2. PInv /\ [Next]_vars => PInv'
  BY NextPInv
<1> QED
  BY <1>1, <1>2, PTL DEF Spec

(* Type correctness; what Resolve returns has its type as well.            *)
THEOREM PolicyTypeCorrect == Spec => []TypeOK
<1>1. PInv => TypeOK
  BY DEF PInv
<1> QED
  BY <1>1, PolicyInductive, PTL

(* kpd never serves under a policy that Validate rejects, whatever becomes *)
(* of the file, and with KP_REQUIRE_POLICY not without a file unless it    *)
(* was taken away after the check.                                         *)
THEOREM PolicyAlwaysValid == Spec => []PolicyInForce
<1>1. PInv => PolicyInForce
  BY DEF PInv
<1> QED
  BY <1>1, PolicyInductive, PTL

(* FirstSet of three amounts.                                              *)
LEMMA FirstSetFacts ==
    ASSUME NEW x \in Int, NEW y \in Int, NEW z \in Int, NEW d
    PROVE  FirstSet(<<x, y, z>>, d)
             = IF x > 0 THEN x ELSE IF y > 0 THEN y ELSE IF z > 0 THEN z ELSE d
<1> DEFINE s == <<x, y, z>>
           set == {i \in 1..Len(s) : s[i] > 0}
           first == CHOOSE i \in set : \A j \in set : i <= j
<1>1. /\ set \subseteq {1, 2, 3}
      /\ 1 \in set <=> x > 0
      /\ 2 \in set <=> y > 0
      /\ 3 \in set <=> z > 0
  OBVIOUS
<1>2. s[1] = x /\ s[2] = y /\ s[3] = z
  OBVIOUS
<1>3. FirstSet(s, d) = IF set = {} THEN d ELSE s[first]
  BY DEF FirstSet
<1> HIDE DEF s, set
<1>4. CASE x > 0
  <2>1. 1 \in set /\ \A j \in set : 1 <= j
    BY <1>1, <1>4
  <2>2. first \in set /\ \A j \in set : first <= j
    BY <2>1
  <2> HIDE DEF first
  <2>3. first = 1
    BY <1>1, <2>1, <2>2
  <2> QED
    BY <1>1, <1>2, <1>3, <1>4, <2>3 DEF s
<1>5. CASE ~(x > 0) /\ y > 0
  <2>1. 2 \in set /\ \A j \in set : 2 <= j
    BY <1>1, <1>5
  <2>2. first \in set /\ \A j \in set : first <= j
    BY <2>1
  <2> HIDE DEF first
  <2>3. first = 2
    BY <1>1, <2>1, <2>2
  <2> QED
    BY <1>1, <1>2, <1>3, <1>5, <2>3 DEF s
<1>6. CASE ~(x > 0) /\ ~(y > 0) /\ z > 0
  <2>1. 3 \in set /\ \A j \in set : 3 <= j
    BY <1>1, <1>6
  <2>2. first \in set /\ \A j \in set : first <= j
    BY <2>1
  <2> HIDE DEF first
  <2>3. first = 3
    BY <1>1, <2>1, <2>2
  <2> QED
    BY <1>1, <1>2, <1>3, <1>6, <2>3 DEF s
<1>7. CASE ~(x > 0) /\ ~(y > 0) /\ ~(z > 0)
  BY <1>1, <1>3, <1>7 DEF s
<1> QED
  BY <1>4, <1>5, <1>6, <1>7

(* Three nested overrides are the order of precedence.                     *)
LEMMA NestedOverrides == PInv => ResolvedByPrecedence
<1> SUFFICES ASSUME PInv, Resolved, NEW f \in Fields
             PROVE  out.limits[f]
                      = FirstSet(<<req.limits[f], findImage(snap, out.image).limits[f],
                                   ProfileFor(snap, req.profile).limits[f]>>,
                                 snap.defaults[f])
  BY DEF ResolvedByPrecedence
<1> DEFINE q == req.limits
           i == findImage(snap, out.image).limits
           p == ProfileFor(snap, req.profile).limits
           d == snap.defaults
<1>1. /\ req \in Requests /\ IsPolicy(snap) /\ Validate(snap)
      /\ out = Resolve(snap, req) /\ out # Denied
  BY DEF PInv, OutIsResolved, Resolved
<1>2. q \in LimitsType /\ i \in LimitsType /\ p \in LimitsType /\ d \in LimitsType
  BY <1>1, ShapeAssumption, FindImageFacts, ProfileForFacts DEF IsPolicy
<1>3. out.limits = Override(Override(Override(d, p), i), q)
  BY <1>1, ResolveFacts
<1> HIDE DEF q, i, p, d
<1>4. q[f] \in Int /\ i[f] \in Int /\ p[f] \in Int
  BY <1>2, PolicyAssumption DEF LimitsType
<1>5. out.limits[f] = IF q[f] > 0 THEN q[f] ELSE IF i[f] > 0 THEN i[f]
                      ELSE IF p[f] > 0 THEN p[f] ELSE d[f]
  BY <1>2, <1>3, OverrideFacts
<1>6. out.limits[f] = FirstSet(<<q[f], i[f], p[f]>>, d[f])
  BY <1>4, <1>5, FirstSetFacts
<1> QED
  BY <1>6 DEF q, i, p, d

(* What Resolve promises about precedence holds field by field, for every  *)
(* policy and request.                                                     *)
THEOREM PolicyResolvedByPrecedence == Spec => []ResolvedByPrecedence
BY NestedOverrides, PolicyInductive, PTL

(* Every profile of a policy in force can be used by its name alone.       *)
THEOREM PolicyProfilesResolve == Spec => []ProfilesResolve
<1>1. PInv => ProfilesResolve
  <2> SUFFICES ASSUME PInv, kpd = "serving", NEW n \in DOMAIN policy.profiles
               PROVE  Resolve(policy, [profile |-> n, image |-> NoName, limits |-> Unset])
                        # Denied
    BY DEF ProfilesResolve
  <2> DEFINE r == [profile |-> n, image |-> NoName, limits |-> Unset]
             prof == ProfileFor(policy, n)
             img == findImage(policy, prof.image)
             lim == Override(Override(Override(policy.defaults, prof.limits), img.limits), Unset)
             e == EgressFor(policy, r, prof.image)
             o == [image |-> prof.image, limits |-> lim,
                   egress |-> [mode |-> e.mode, hosts |-> e.hosts \ policy.deny],
                   networkMode |-> policy.networkMode]
  <2>1. Validate(policy) /\ IsPolicy(policy)
    BY DEF PInv, PolicyInForce
  <2>2. /\ prof = policy.profiles[n] /\ prof.image # NoName
        /\ policy.images # <<>> => prof.image \in ImageNames(policy)
    BY <2>1 DEF ProfileFor, Validate, ProfilesValid
  <2>3. Resolve(policy, r) = o
    BY <2>2 DEF Resolve, EgressFor, applyGlobalDeny
  <2>4. prof.image \in Names
    BY <2>1, <2>2, ProfileForFacts
  <2>5. lim \in LimitsType
    <3>1. Unset \in LimitsType /\ policy.defaults \in LimitsType
      BY <2>1, ShapeAssumption DEF Unset, LimitsType, IsPolicy
    <3> QED
      BY <2>1, <3>1, FindImageFacts, ProfileForFacts, OverrideFacts
  <2>6. e \in EgressType
    BY <2>1, EgressForFacts
  <2>7. policy.networkMode \in STRING
    BY <2>1 DEF IsPolicy
  <2> HIDE DEF prof, lim, e
  <2>8. o \in ResultType
    BY <2>4, <2>5, <2>6, <2>7 DEF ResultType, EgressType
  <2> QED
    BY <2>3, <2>8, ShapeAssumption
<1> QED
  BY <1>1, PolicyInductive, PTL


-----------------------------------------------------------------------------
(* A step of a sandbox's egress is no step of the policy.                  *)
LEMMA EgressStep == [EgressNext]_<<vars, egressVars>> => [Next]_vars
BY DEF EgressNext, Claim, Provision, ProxyStart, ProxyCrash

(* The composed specification implements that of the policy.               *)
THEOREM EgressImplementsPolicy == EgressSpec => Spec
<1>1. EgressInit => Init
  BY DEF EgressInit
<1>2. [EgressNext]_<<vars, egressVars>> => [Next]_vars
  BY EgressStep
<1> QED
  BY <1>1, <1>2, PTL DEF EgressSpec, Spec

(* The sandbox a cold start makes of the answer.  Every sandbox is that    *)
(* one, claimed or not, and a running proxy has read exactly its           *)
(* environment.                                                            *)
ColdSandbox ==
    LET limits == [f \in Limits |-> out.limits[f]]
    IN  IF out.egress.mode = "allowlist"
        THEN Sandbox("internal", out.egress.hosts, limits)
        ELSE Sandbox(networkOrDefault(out.networkMode), {}, limits)
BoxIsProvisioned == box # Nil => Resolved /\ box = ColdSandbox
ProxyIsConfigured ==
    kpproxy # Nil =>
        /\ box # Nil /\ box.net = "internal"
        /\ kpproxy = [allowed |-> normalize(box.allowedHosts), denied |-> DenyHosts]

(* The inductive invariant of Egress.                                      *)
EInv == PInv /\ BoxIsProvisioned /\ ProxyIsConfigured

(* What a claim hands out is what a cold start would have made: the pool's *)
(* rule and the match leave the limits of the answer, the match rules an   *)
(* allowlist out, and the network is that of the same policy.              *)
LEMMA ClaimIsColdSandbox == PInv /\ Claim => box' = ColdSandbox
<1> SUFFICES ASSUME PInv, Claim PROVE box' = ColdSandbox
  OBVIOUS
<1>1. /\ req \in Requests /\ IsPolicy(snap) /\ Validate(snap)
      /\ out = Resolve(snap, req) /\ out # Denied
  BY DEF PInv, OutIsResolved, Claim, Resolved
<1>2. out.networkMode = snap.networkMode
  BY <1>1, ResolveFacts
<1>3. poolSpecFor(snap, out.image) = [f \in Limits |-> out.limits[f]]
  BY DEF Claim, poolMatchesResolved, poolSpecFor
<1>4. out.egress.mode # "allowlist"
  BY DEF Claim, poolMatchesResolved
<1> QED
  BY <1>2, <1>3, <1>4 DEF Claim, ColdSandbox

(* Every step preserves it: the answer is final once there is one.         *)
LEMMA NextEInv == EInv /\ [EgressNext]_<<vars, egressVars>> => EInv'
<1> SUFFICES ASSUME EInv, [EgressNext]_<<vars, egressVars>> PROVE EInv'
  OBVIOUS
<1>1. PInv'
  BY NextPInv, EgressStep DEF EInv
<1>2. CASE Next /\ UNCHANGED egressVars
  <2>1. Resolved => out' = out
    <3>1. out # Nil => req # Nil
      BY Zenon DEF EInv, PInv, TypeOK
    <3> QED
      BY <1>2, <3>1 DEF Next, RequireFile, Start, Edit, reloadOnHUP, Create, createVars,
         Resolved
  <2> QED
    BY <1>1, <1>2, <2>1 DEF egressVars, EInv, BoxIsProvisioned, ProxyIsConfigured,
       Resolved, ColdSandbox
<1>3. CASE Claim \/ Provision
  <2>1. Resolved /\ UNCHANGED <<out, kpproxy>> /\ kpproxy = Nil
    BY <1>3 DEF Claim, Provision, vars, createVars, EInv, ProxyIsConfigured
  <2>2. box' = ColdSandbox
    BY <1>3, ClaimIsColdSandbox DEF EInv, Provision, ColdSandbox
  <2> QED
    BY <1>1, <2>1, <2>2 DEF EInv, BoxIsProvisioned, ProxyIsConfigured, Resolved, ColdSandbox
<1>4. CASE ProxyStart
  BY <1>1, <1>4 DEF ProxyStart, vars, createVars, EInv, BoxIsProvisioned,
     ProxyIsConfigured, Resolved, ColdSandbox
<1>5. CASE ProxyCrash
  BY <1>1, <1>5 DEF ProxyCrash, vars, createVars, EInv, BoxIsProvisioned,
     ProxyIsConfigured, Resolved, ColdSandbox
<1>6. CASE UNCHANGED <<vars, egressVars>>
  BY <1>1, <1>6 DEF egressVars, vars, createVars, EInv, BoxIsProvisioned,
     ProxyIsConfigured, Resolved, ColdSandbox
<1> QED
  BY <1>2, <1>3, <1>4, <1>5, <1>6 DEF EgressNext

(* The invariant of the composition holds in every reachable state.        *)
THEOREM EgressInductive == EgressSpec => []EInv
<1>1. EgressInit => EInv
  BY InitPInv DEF EgressInit, EInv, BoxIsProvisioned, ProxyIsConfigured
<1>2. EInv /\ [EgressNext]_<<vars, egressVars>> => EInv'
  BY NextEInv
<1> QED
  BY <1>1, <1>2, PTL DEF EgressSpec

(* A sandbox reaches what its policy grants and nothing else, over every   *)
(* reload of the policy and every restart of its proxy.                    *)
THEOREM EgressExact == EgressSpec => []EgressIsResolved
<1>1. EInv => EgressIsResolved
  <2> SUFFICES ASSUME EInv, box # Nil, NEW t \in Targets, NEW method \in {"CONNECT", "GET"}
               PROVE  LET from == EgressFor(snap, req, out.image)
                          granted == /\ SiteOf[t] \notin DenyHosts \cup {Nil}
                                     /\ \E h \in from.hosts \ snap.deny : SiteOf[t] \in Reads[h]
                      IN  Reaches(method, t) <=>
                             IF from.mode = "allowlist"
                             THEN method = "CONNECT" /\ granted /\ kpproxy # Nil
                             ELSE snap.networkMode = "bridge"
    BY DEF EgressIsResolved, EgressFor
  <2> DEFINE from == EgressFor(snap, req, out.image)
  <2>1. /\ req \in Requests /\ IsPolicy(snap) /\ Validate(snap)
        /\ out = Resolve(snap, req) /\ out # Denied /\ Resolved
    BY DEF EInv, PInv, OutIsResolved, BoxIsProvisioned, Resolved
  <2>2. /\ out.egress.mode = from.mode /\ out.egress.hosts = from.hosts \ snap.deny
        /\ out.networkMode = snap.networkMode
    BY <2>1, ResolveFacts
  <2>3. snap.networkMode \in {"", "none", "bridge"}
    BY <2>1 DEF Validate
  <2> HIDE DEF from
  <2>4. CASE from.mode = "allowlist"
    <3>1. box.net = "internal" /\ box.allowedHosts = from.hosts \ snap.deny
      BY <2>2, <2>4 DEF EInv, BoxIsProvisioned, ColdSandbox, Sandbox
    <3>2. kpproxy # Nil => /\ kpproxy.denied = DenyHosts
                           /\ kpproxy.allowed = UNION {Reads[h] : h \in from.hosts \ snap.deny}
      BY <3>1 DEF EInv, ProxyIsConfigured, normalize
    <3> QED
      BY <2>4, <3>1, <3>2 DEF Reaches, Forwards, isAllowed, isDenied, from
  <2>5. CASE from.mode # "allowlist"
    <3>1. box.net = networkOrDefault(snap.networkMode)
      BY <2>2, <2>5 DEF EInv, BoxIsProvisioned, ColdSandbox, Sandbox
    <3> QED
      BY <2>3, <2>5, <3>1 DEF Reaches, networkOrDefault, from
  <2> QED
    BY <2>4, <2>5
<1> QED
  BY <1>1, EgressInductive, PTL

(* A sandbox runs with the limits that the order of precedence gives its   *)
(* request, from the pool and from a cold start alike.                     *)
THEOREM EgressLimitsAsResolved == EgressSpec => []LimitsAsResolved
<1>1. EInv => LimitsAsResolved
  <2> SUFFICES ASSUME EInv, box # Nil, NEW f \in Limits
               PROVE  box.limits[f]
                        = FirstSet(<<req.limits[f], findImage(snap, out.image).limits[f],
                                     ProfileFor(snap, req.profile).limits[f]>>,
                                   snap.defaults[f])
    BY DEF LimitsAsResolved
  <2>1. Resolved /\ box.limits = [g \in Limits |-> out.limits[g]]
    BY DEF EInv, BoxIsProvisioned, ColdSandbox, Sandbox
  <2>2. ResolvedByPrecedence /\ f \in Fields
    BY NestedOverrides DEF EInv, Limits
  <2> QED
    BY <2>1, <2>2 DEF ResolvedByPrecedence
<1> QED
  BY <1>1, EgressInductive, PTL

(* Where no two entries name the same site (one spelling for each, and no  *)
(* commas), global_deny does win: what remains of the allowlist names no   *)
(* site that global_deny names.                                            *)
THEOREM EgressGlobalDenyWins ==
    ASSUME \A h, k \in Hosts : h # k => Reads[h] \cap Reads[k] = {}
    PROVE  EgressSpec => []GlobalDenyWins
<1>1. EInv => GlobalDenyWins
  <2> SUFFICES ASSUME EInv, box # Nil, box.net = "internal", NEW t \in Targets,
                      NEW method \in {"CONNECT", "GET"}, Reaches(method, t)
               PROVE  SiteOf[t] \notin normalize(snap.deny)
    BY DEF GlobalDenyWins
  <2> DEFINE from == EgressFor(snap, req, out.image)
  <2>1. /\ req \in Requests /\ IsPolicy(snap) /\ Validate(snap)
        /\ out = Resolve(snap, req) /\ out # Denied /\ Resolved
    BY DEF EInv, PInv, OutIsResolved, BoxIsProvisioned, Resolved
  <2>2. out.egress.hosts = from.hosts \ snap.deny /\ out.networkMode = snap.networkMode
    BY <2>1, ResolveFacts
  <2>3. from \in EgressType
    BY <2>1, EgressForFacts
  <2> HIDE DEF from
  <2>4. from.hosts \subseteq Hosts /\ snap.deny \subseteq Hosts
    BY <2>1, <2>3 DEF EgressType, IsPolicy
  <2>5. box.allowedHosts = from.hosts \ snap.deny
    <3>1. networkOrDefault(out.networkMode) # "internal"
      BY <2>1, <2>2 DEF Validate, networkOrDefault
    <3>2. box = ColdSandbox
      BY DEF EInv, BoxIsProvisioned
    <3> QED
      BY <2>2, <3>1, <3>2 DEF ColdSandbox, Sandbox
  <2>6. PICK h \in from.hosts \ snap.deny : SiteOf[t] \in Reads[h]
    BY <2>5 DEF Reaches, Forwards, isAllowed, EInv, ProxyIsConfigured, normalize
  <2>7. ASSUME NEW k \in snap.deny PROVE SiteOf[t] \notin Reads[k]
    BY <2>4, <2>6
  <2> QED
    BY <2>7 DEF normalize
<1> QED
  BY <1>1, EgressInductive, PTL
=============================================================================
