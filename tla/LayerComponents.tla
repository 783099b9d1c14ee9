--------------------------- MODULE LayerComponents ---------------------------
(***************************************************************************)
(* What the programs under layers/ declare.  A layer is a table of         *)
(* components, each with the ones it follows; internal/pkg/layer sorts the *)
(* table, lets a component decline by its configuration, and turns what it *)
(* follows into DependsOn.  A resource is <<component, part>>: most        *)
(* components are one, a few are several.  Layers are numbered 1 to 5, for *)
(* 10-node-platform to 50-gitops.                                          *)
(***************************************************************************)
EXTENDS Naturals, Sequences

Layer == 1..5

\* A layer's components as `slices.Sorted` has their keys, each with its After.
NodePlatform == <<
    <<"cni", {}>>,
    <<"hcloud", {"cni"}>>,
    <<"hcloud-ccm", {"cni", "hcloud"}>>,
    <<"hcloud-csi", {"hcloud", "hcloud-ccm"}>> >>

NetworkPolicy == << <<"allow", {}>>, <<"default-deny", {"allow"}>> >>

ClusterServices == <<
    <<"cert-manager", {}>>,
    <<"external-secrets", {}>>,
    <<"image-policies", {"policy-controller"}>>,
    <<"keda", {}>>,
    <<"kubelet-serving-cert-approver", {}>>,
    <<"letsencrypt", {"cert-manager"}>>,
    <<"metrics-server", {"kubelet-serving-cert-approver"}>>,
    <<"policy-controller", {}>>,
    <<"pulumi-esc", {"external-secrets"}>> >>

Ingress == << <<"load-balancer", {}>>, <<"traefik", {}>> >>

Gitops == <<
    <<"argo-cd", {}>>,
    <<"repository-credential", {"argo-cd"}>>,
    <<"root", {"argo-cd", "repository-credential"}>> >>

Table == <<NodePlatform, NetworkPolicy, ClusterServices, Ingress, Gitops>>

Keys == [l \in Layer |-> [i \in DOMAIN Table[l] |-> Table[l][i][1]]]
Elements(s) == {s[i] : i \in DOMAIN s}
Components(l) == Elements(Keys[l])
Component == UNION {Components(l) : l \in Layer}
Rows == UNION {Elements(Table[l]) : l \in Layer}
Named == [c \in Component |-> (CHOOSE row \in Rows : row[1] = c)[2]]

\* Mutant: the tables' After never becomes a DependsOn.
AfterNothing(c) == {}

\* What a component follows; "records", which is no component, follows nothing.
After(c) == IF c \in Component THEN Named[c] ELSE {}

\* The charts, with the namespace each installs into.
Namespace == [c \in {"cni", "hcloud-ccm", "hcloud-csi", "cert-manager", "external-secrets",
                     "keda", "metrics-server", "policy-controller", "traefik", "argo-cd"} |->
                CASE c \in {"cni", "hcloud-ccm", "hcloud-csi", "metrics-server"} -> "kube-system"
                  [] c = "policy-controller" -> "cosign-system"
                  [] c = "argo-cd"           -> "argocd"
                  [] OTHER                   -> c]
Charts == DOMAIN Namespace

VerifiesImages(ns) == ns \notin {"kube-system", "cosign-system"}

----------------------------------------------------------------------------
(* The order a layer's components are declared in.                          *)

\* Of a set of keys, the one a sorted range comes to first.
Smallest(l, S) ==
    Keys[l][CHOOSE i \in DOMAIN Keys[l] :
               /\ Keys[l][i] \in S
               /\ \A j \in DOMAIN Keys[l] : Keys[l][j] \in S => i <= j]

\* Where a visit of k gets to before it places anything: from dependency to
\* dependency, the smallest first.
Deepest(l, k, placed) ==
    LET below[n \in 0..Len(Keys[l])] ==
            IF n = 0 THEN k
            ELSE LET c == below[n - 1]
                     open == After(c) \ placed
                 IN IF open = {} THEN c ELSE Smallest(l, open)
    IN below[Len(Keys[l])]

Order == [l \in Layer |->
    LET first[n \in 0..Len(Keys[l])] ==
            IF n = 0 THEN <<>>
            ELSE LET before == first[n - 1]
                     placed == Elements(before)
                     next == Smallest(l, Components(l) \ placed)
                 IN Append(before, Deepest(l, next, placed))
    IN first[Len(Keys[l])]]

\* What the five tables come to, by evaluation: every component once, and each
\* behind the ones it follows.
ASSUME OrderAssumption == \A l \in Layer :
    /\ Order[l] \in Seq(Components(l)) /\ Elements(Order[l]) = Components(l)
    /\ \A i, j \in DOMAIN Order[l] : Order[l][i] = Order[l][j] => i = j
    /\ \A i \in DOMAIN Order[l] : After(Order[l][i]) \subseteq {Order[l][j] : j \in 1..(i - 1)}

----------------------------------------------------------------------------
(* Configuration.                                                           *)

\* "A value that is not a boolean is an ERROR", an absent one is off.
Flag == {"off", "on", "wrong"}
Transport == {"https", "ssh", "unknown"}

\* The keys of the layers' stacks that decide what is created, the domain and
\* zone the cluster tier publishes, and whether it or the layer has a token.
Settings == [enabled : Flag, acmeEmail : BOOLEAN, acmeStaging : Flag, kedaEnabled : Flag,
             pulumiAccessToken : BOOLEAN, cni : {"cilium", "another"},
             repoURL : Transport \union {"unset"},
             credential : SUBSET {"username", "password", "sshKey"},
             token : BOOLEAN, domain : BOOLEAN, dnsZone : BOOLEAN]

\* `RepoCredential.Validate`, of a credential that has something set.
Fits(credential, url) ==
    \/ credential = {}
    \/ credential = {"sshKey"} /\ url = "ssh"
    \/ credential = {"username", "password"} /\ url = "https"

\* What each component that has a choice comes to: it creates its resources,
\* declines them, which it says, or returns an error.
FlagIs(f) == CASE f = "on" -> "created" [] f = "off" -> "declined" [] OTHER -> "failed"
CreatedIf(b) == IF b THEN "created" ELSE "declined"

Cni(s)         == IF s.cni = "cilium" THEN "created" ELSE "failed"
DefaultDeny(s) == FlagIs(s.enabled)
ClusterIssuer(s) ==
    IF ~s.acmeEmail THEN "declined" ELSE IF s.acmeStaging = "wrong" THEN "failed" ELSE "created"
Keda(s)        == FlagIs(s.kedaEnabled)
SecretStore(s) == CreatedIf(s.pulumiAccessToken)
RepositoryCredential(s) ==
    IF s.credential = {} THEN "declined"
    ELSE IF s.repoURL # "unset" /\ Fits(s.credential, s.repoURL) THEN "created" ELSE "failed"
Root(s)        == CreatedIf(s.repoURL # "unset")

Verdict(c, s) ==
    CASE c = "cni"                   -> Cni(s)
      [] c = "default-deny"          -> DefaultDeny(s)
      [] c = "letsencrypt"           -> ClusterIssuer(s)
      [] c = "keda"                  -> Keda(s)
      [] c = "pulumi-esc"            -> SecretStore(s)
      [] c = "repository-credential" -> RepositoryCredential(s)
      [] c = "root"                  -> Root(s)
      [] OTHER                       -> "created"

Fails(c, s) == Verdict(c, s) = "failed"
Declines(c, s) == Verdict(c, s) = "declined"

ProgramFails(l, s) == \E c \in Components(l) : Fails(c, s)

\* `Deploy` goes down the order and returns at the first error.
Deployed(l, s) ==
    {c \in Components(l) : \E k \in DOMAIN Order[l] :
        /\ Order[l][k] = c /\ ~Declines(c, s)
        /\ \A j \in 1..k : ~Fails(Order[l][j], s)}

----------------------------------------------------------------------------
(* Resources.                                                               *)

Parts(c) ==
    CASE c \in Charts        -> IF VerifiesImages(Namespace[c]) THEN {"release", "label"}
                                ELSE {"release"}
      [] c = "pulumi-esc"    -> {"credential", "store"}
      [] c = "root"          -> {"project", "application"}
      [] c = "load-balancer" -> {"balancer", "attachment", "services", "target"}
      [] c = "records"       -> {"rrsets"}
      [] OTHER               -> {"object"}

\* The resource a component returns, which the ones after it depend on.
Returned(c) ==
    <<c, CASE c \in Charts        -> "release"
           [] c = "pulumi-esc"    -> "store"
           [] c = "root"          -> "application"
           [] c = "load-balancer" -> "balancer"
           [] OTHER               -> "object">>

PartsOf(C) == UNION {{c} \X Parts(c) : c \in C}

\* The ingress layer's records come after Deploy, and are no component of it.
ResourcesOf(l) == PartsOf(Components(l) \union (IF l = 4 THEN {"records"} ELSE {}))
Resource == UNION {ResourcesOf(l) : l \in Layer}

Declared(l, s) ==
    PartsOf(Deployed(l, s) \union
            (IF l = 4 /\ s.domain /\ s.dnsZone THEN {"records"} ELSE {}))

\* What a component's own resources follow among themselves, by DependsOn or
\* because an input of one is an output of the other.
Within(r) ==
    CASE r[2] = "label"                     -> {<<r[1], "release">>}
      [] r[2] = "store"                     -> {<<r[1], "credential">>}
      [] r[2] = "application"               -> {<<r[1], "project">>}
      [] r[2] \in {"attachment", "services"} -> {<<r[1], "balancer">>}
      [] r[2] = "target"                    -> {<<r[1], "balancer">>, <<r[1], "attachment">>}
      [] r[2] = "rrsets"                    -> {<<"load-balancer", "balancer">>}
      [] OTHER                              -> {}

\* Mutant: the dependencies are those of the table, created or not.
FollowsDeclined(r, s) == Within(r) \union {Returned(a) : a \in After(r[1])}

\* `resourcesFor`: a component that declined is not waited for.
Follows(r, s) ==
    Within(r) \union {Returned(a) : a \in {b \in After(r[1]) : ~Declines(b, s)}}

\* `HcloudToken` refuses an empty token when it is resolved, not when Deploy
\* gets there: the other components are declared all the same.
Unresolved(r, s) == ~s.token /\ r[1] \in {"hcloud", "load-balancer", "records"}

\* What lives in the cluster, and goes with it; the rest is Hetzner's.
InCluster(r) == r[1] \notin {"load-balancer", "records"}

\* What has to be running for a resource to become ready, as the comments on
\* the tables have it: "nothing schedules before the CCM clears the
\* uninitialized taint, and nothing networks before the CNI"; an object needs
\* the chart that brings its CRD or its namespace; metrics-server verifies
\* certificates the approver lets be signed.
Needs(r) ==
    LET c == r[1]
        scheduled == {<<"cni", "release">>, <<"hcloud-ccm", "release">>}
    IN CASE c \in {"cni", "hcloud"}        -> {}
         [] c = "hcloud-ccm"               -> {<<"cni", "release">>, <<"hcloud", "object">>}
         [] c = "hcloud-csi"               -> scheduled \union {<<"hcloud", "object">>}
         [] c \in {"allow", "default-deny"} -> {<<"cni", "release">>}
         [] c = "letsencrypt"              -> {<<"cert-manager", "release">>}
         [] c = "pulumi-esc"               -> {<<"external-secrets", "release">>}
         [] c = "image-policies"           -> {<<"policy-controller", "release">>}
         [] c = "metrics-server"           ->
                scheduled \union {<<"kubelet-serving-cert-approver", "object">>}
         [] c \in {"repository-credential", "root"} -> {<<"argo-cd", "release">>}
         [] c = "load-balancer"            -> Within(r)
         [] c = "records"                  -> Within(r)
         [] r[2] = "label"                 -> {<<c, "release">>}
         [] OTHER                          -> scheduled

\* What has to be running for a resource to be deleted: the root Application's
\* finalizer is Argo CD's to remove, and without the CNI Argo CD reaches nobody.
NeedsToGo(r) ==
    IF r = <<"root", "application">> THEN {<<"argo-cd", "release">>, <<"cni", "release">>} ELSE {}
=============================================================================
