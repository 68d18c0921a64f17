-------------------------- MODULE KubernetesSchema --------------------------
(***************************************************************************)
(* The Kubernetes base types of the schema registry (si-registry,          *)
(* components/si-kubernetes/kubernetes.ts) as the data the Property        *)
(* Resolver walks.  Each registry.base call declares an object type; each  *)
(* c.fields.addX / p.properties.addX call declares one property of it.     *)
(*                                                                         *)
(* A property is a row: its id (type name, then field names, joined by     *)
(* "."), its name, its kind(), its repeated flag, the type name its lookup *)
(* names (links only), and the ids of its properties (objects only).  A    *)
(* base type is itself an object row, the property a link's lookupMyself() *)
(* returns.  Labels, hidden, required and numberKind are left out: the     *)
(* resolver copies them and never branches on them.                        *)
(***************************************************************************)
EXTENDS Sequences

\* A row of the registry; `to` is "" for a property that is not a link.
Row(id, name, kind, repeated, to, attrs) ==
    [id |-> id, name |-> name, kind |-> kind, repeated |-> repeated,
     to |-> to, attrs |-> attrs]

\* registry.base kubernetesMetadata: name, namespace, and the map labels
\* whose `repeated` option is commented out.
Metadata ==
    { Row("kubernetesMetadata", "kubernetesMetadata", "object", FALSE, "",
          <<"kubernetesMetadata.name", "kubernetesMetadata.namespace",
            "kubernetesMetadata.labels">>),
      Row("kubernetesMetadata.name", "name", "text", FALSE, "", <<>>),
      Row("kubernetesMetadata.namespace", "namespace", "text", FALSE, "", <<>>),
      Row("kubernetesMetadata.labels", "labels", "map", FALSE, "", <<>>) }

\* registry.base kubernetesSelector: the map matchLabels.
Selector ==
    { Row("kubernetesSelector", "kubernetesSelector", "object", FALSE, "",
          <<"kubernetesSelector.matchLabels">>),
      Row("kubernetesSelector.matchLabels", "matchLabels", "map", FALSE, "", <<>>) }

\* registry.base kubernetesContainer: name, image, and a repeated link
\* ports to kubernetesContainerPort.
Container ==
    { Row("kubernetesContainer", "kubernetesContainer", "object", FALSE, "",
          <<"kubernetesContainer.name", "kubernetesContainer.image",
            "kubernetesContainer.ports">>),
      Row("kubernetesContainer.name", "name", "text", FALSE, "", <<>>),
      Row("kubernetesContainer.image", "image", "text", FALSE, "", <<>>),
      Row("kubernetesContainer.ports", "ports", "link", TRUE,
          "kubernetesContainerPort", <<>>) }

\* registry.base kubernetesContainerPort: the number containerPort and the
\* texts hostIp, name and protocol (hostPort is commented out).
ContainerPort ==
    { Row("kubernetesContainerPort", "kubernetesContainerPort", "object", FALSE, "",
          <<"kubernetesContainerPort.containerPort", "kubernetesContainerPort.hostIp",
            "kubernetesContainerPort.name", "kubernetesContainerPort.protocol">>),
      Row("kubernetesContainerPort.containerPort", "containerPort", "number", FALSE, "", <<>>),
      Row("kubernetesContainerPort.hostIp", "hostIp", "text", FALSE, "", <<>>),
      Row("kubernetesContainerPort.name", "name", "text", FALSE, "", <<>>),
      Row("kubernetesContainerPort.protocol", "protocol", "text", FALSE, "", <<>>) }

\* registry.base kubernetesPodSpec: a repeated object imagePullSecrets of
\* one text, and a repeated link containers to kubernetesContainer.
PodSpec ==
    { Row("kubernetesPodSpec", "kubernetesPodSpec", "object", FALSE, "",
          <<"kubernetesPodSpec.imagePullSecrets", "kubernetesPodSpec.containers">>),
      Row("kubernetesPodSpec.imagePullSecrets", "imagePullSecrets", "object", TRUE, "",
          <<"kubernetesPodSpec.imagePullSecrets.name">>),
      Row("kubernetesPodSpec.imagePullSecrets.name", "name", "text", FALSE, "", <<>>),
      Row("kubernetesPodSpec.containers", "containers", "link", TRUE,
          "kubernetesContainer", <<>>) }

\* registry.base kubernetesPodTemplateSpec: links metadata and spec.
PodTemplateSpec ==
    { Row("kubernetesPodTemplateSpec", "kubernetesPodTemplateSpec", "object", FALSE, "",
          <<"kubernetesPodTemplateSpec.metadata", "kubernetesPodTemplateSpec.spec">>),
      Row("kubernetesPodTemplateSpec.metadata", "metadata", "link", FALSE,
          "kubernetesMetadata", <<>>),
      Row("kubernetesPodTemplateSpec.spec", "spec", "link", FALSE,
          "kubernetesPodSpec", <<>>) }

\* registry.base kubernetesLoadBalancerStatus: a repeated object ingress
\* of the texts hostname and ip.
LoadBalancerStatus ==
    { Row("kubernetesLoadBalancerStatus", "kubernetesLoadBalancerStatus", "object", FALSE, "",
          <<"kubernetesLoadBalancerStatus.ingress">>),
      Row("kubernetesLoadBalancerStatus.ingress", "ingress", "object", TRUE, "",
          <<"kubernetesLoadBalancerStatus.ingress.hostname",
            "kubernetesLoadBalancerStatus.ingress.ip">>),
      Row("kubernetesLoadBalancerStatus.ingress.hostname", "hostname", "text", FALSE, "", <<>>),
      Row("kubernetesLoadBalancerStatus.ingress.ip", "ip", "text", FALSE, "", <<>>) }

KubeRows == Metadata \cup Selector \cup Container \cup ContainerPort
              \cup PodSpec \cup PodTemplateSpec \cup LoadBalancerStatus

-----------------------------------------------------------------------------
(* The constants of PropertyResolver read off a set of rows.               *)

RowOf(rows, p) == CHOOSE r \in rows : r.id = p

IdsOf(rows) == {r.id : r \in rows}

NamesOf(rows) == {r.name : r \in rows}

NameOf(rows) == [p \in IdsOf(rows) |-> RowOf(rows, p).name]

KindOf(rows) == [p \in IdsOf(rows) |-> RowOf(rows, p).kind]

RepeatedOf(rows) == [p \in IdsOf(rows) |-> RowOf(rows, p).repeated]

ChildrenOf(rows) == [p \in IdsOf(rows) |-> RowOf(rows, p).attrs]

\* prop.lookupMyself(): the base type a link's lookup names; a property
\* that is not a link stands for itself.
LookupOf(rows) == [p \in IdsOf(rows) |->
                     IF RowOf(rows, p).kind = "link" THEN RowOf(rows, p).to ELSE p]
=============================================================================
