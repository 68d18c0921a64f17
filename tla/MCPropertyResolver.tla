------------------------- MODULE MCPropertyResolver -------------------------
(***************************************************************************)
(* A small registry schema for PropertyResolver.  The update field has an  *)
(* object `spec` (a text `x` and an object `inner` holding a text `y`), a  *)
(* text `a`, a link `ln` to `spec`, a repeated object `ports` and a        *)
(* repeated text `tags`.  The elements of `ports` hold a text `n` and, in  *)
(* the nested schema, the object `inner` as well.  `spec` comes first, so  *)
(* the group of top-level texts is not the first group.                    *)
(***************************************************************************)
EXTENDS PropertyResolver, KubernetesSchema

CONSTANTS pa, pspec, px, pinner, py, pln, pports, pn, ptags

MCProps == {pa, pspec, px, pinner, py, pln, pports, pn, ptags}

\* A property's name is the property itself: every name differs, and a
\* name is never equal to an array index.
MCName == [p \in MCProps |-> p]

MCKind == [p \in MCProps |->
             IF p \in {pspec, pinner, pports} THEN "object"
             ELSE IF p = pln THEN "link" ELSE "text"]

MCRepeated == [p \in MCProps |-> p \in {pports, ptags}]

MCLinkTo == [p \in MCProps |-> IF p = pln THEN pspec ELSE p]

\* `ports` elements with a nested object.
MCChildrenNested == [p \in MCProps |->
                       CASE p = pspec  -> <<px, pinner>>
                         [] p = pinner -> <<py>>
                         [] p = pports -> <<pn, pinner>>
                         [] OTHER      -> <<>>]

\* `ports` elements with texts only.
MCChildrenFlat == [MCChildrenNested EXCEPT ![pports] = <<pn>>]

MCRootAttrs == <<pspec, pa, pln, pports, ptags>>

-----------------------------------------------------------------------------
(* The Kubernetes registry of kubernetes.ts behind an update field made    *)
(* for the run: links to the three base types no other base links to, and  *)
(* a repeated text, the only kind of field that takes the scalar branch of *)
(* propertiesListRepeated and that kubernetes.ts does not declare.         *)

MCKubeRoot ==
    { Row("update.template", "template", "link", FALSE, "kubernetesPodTemplateSpec", <<>>),
      Row("update.selector", "selector", "link", FALSE, "kubernetesSelector", <<>>),
      Row("update.status", "status", "link", FALSE, "kubernetesLoadBalancerStatus", <<>>),
      Row("update.finalizers", "finalizers", "text", TRUE, "", <<>>) }

MCKubeRows == KubeRows \cup MCKubeRoot

MCKubeProps == IdsOf(MCKubeRows)
MCKubeNames == NamesOf(MCKubeRows)
MCKubeName == NameOf(MCKubeRows)
MCKubeKind == KindOf(MCKubeRows)
MCKubeRepeated == RepeatedOf(MCKubeRows)
MCKubeChildren == ChildrenOf(MCKubeRows)
MCKubeLinkTo == LookupOf(MCKubeRows)
MCKubeRootAttrs == <<"update.template", "update.selector", "update.status",
                     "update.finalizers">>
=============================================================================
