------------------------- MODULE CertificateMetadata ------------------------
(***************************************************************************)
(* What a decentralized enrollment tells Horizon about a certificate.      *)
(* certificateMetadata collects owner, team, contact e-mail and labels     *)
(* from the default template of the issuer, the annotations of the Ingress *)
(* and of the Certificate, and the override template; SubmitEnrollRequest  *)
(* lays the result over the template that Horizon proposes.  Annotations   *)
(* are visited in the order of a Go map, that is in any order.             *)
(***************************************************************************)
CONSTANTS Fields,  \* owner, team and contact e-mail
          Labels,  \* the names of the labels
          Values,  \* the non-empty strings
          Empty,   \* the empty string
          Unset    \* a nil pointer, or a key that is not in the map

Keys == Fields \cup Labels
Strings == Values \cup {Empty}

(* A template of an issuer, the annotations of an object, or the template  *)
(* of Horizon: a nil template is one in which nothing is set.              *)
Source == [Keys -> Strings \cup {Unset}]

ASSUME MetadataAssumption ==
  /\ Fields \cap Labels = {}
  /\ Empty \notin Values /\ Unset \notin Values /\ Empty # Unset

VARIABLES
  defaultTemplate, overrideTemplate, \* of the issuer's spec
  ingress, certificate,              \* the annotations of the two objects
  proposed,    \* what Horizon's template holds
  phase,       \* the part of the code that comes next
  annotations, \* the merged annotations
  todo,        \* the annotations still to be visited
  value,       \* owner, team, contactEmail and labels
  sent         \* what the submitted request carries

sources == <<defaultTemplate, overrideTemplate, ingress, certificate, proposed>>
metadataVars == <<sources, phase, annotations, todo, value, sent>>

Phases == {"defaults", "merge", "visit", "submit", "sent", "bare", "sentBare"}
Nothing == [k \in Keys |-> Unset]

(* The values of upper win over those of lower.                            *)
Over(upper, lower) ==
  [k \in Keys |-> IF upper[k] # Unset THEN upper[k] ELSE lower[k]]

(* var owner, team, contactEmail string, and an empty map of labels.       *)
Zero == [k \in Keys |-> IF k \in Fields THEN Empty ELSE Unset]

MetadataInit ==
  /\ defaultTemplate \in Source /\ overrideTemplate \in Source
  /\ ingress \in Source /\ certificate \in Source
  /\ proposed \in [Fields -> Strings]
  /\ phase = "defaults"
  /\ annotations = Nothing /\ todo = {} /\ value = Zero /\ sent = Nothing

-----------------------------------------------------------------------------
(* Certificate, issuer or Ingress cannot be read: nothing is computed, and *)
(* Reconcile goes on to the submission with nil in every place.            *)
ReadSourcesFails ==
  /\ phase = "defaults" /\ phase' = "bare"
  /\ UNCHANGED <<sources, annotations, todo, value, sent>>

(* Mutant: the pointers are copied, nil or not.                            *)
CopyDefaults ==
  /\ phase = "defaults" /\ phase' = "merge"
  /\ value' = defaultTemplate
  /\ UNCHANGED <<sources, annotations, todo, sent>>

ApplyDefaults ==
  /\ phase = "defaults" /\ phase' = "merge"
  /\ value' = Over(defaultTemplate, Zero)
  /\ UNCHANGED <<sources, annotations, todo, sent>>

(* The Ingress first, then the Certificate; every key once.                *)
MergeAnnotations ==
  /\ phase = "merge" /\ phase' = "visit"
  /\ annotations' = Over(certificate, ingress)
  /\ todo' = {k \in Keys : annotations'[k] # Unset}
  /\ UNCHANGED <<sources, value, sent>>

VisitAnnotation(k) ==
  /\ phase = "visit" /\ k \in todo
  /\ todo' = todo \ {k}
  /\ value' = [value EXCEPT ![k] = annotations[k]]
  /\ UNCHANGED <<sources, phase, annotations, sent>>

(* Mutant: an override applies only where an annotation was given.         *)
OverrideAnnotated ==
  /\ phase = "visit" /\ todo = {} /\ phase' = "submit"
  /\ value' = [k \in Keys |-> IF annotations[k] # Unset
                              THEN Over(overrideTemplate, value)[k] ELSE value[k]]
  /\ UNCHANGED <<sources, annotations, todo, sent>>

ApplyOverride ==
  /\ phase = "visit" /\ todo = {} /\ phase' = "submit"
  /\ value' = Over(overrideTemplate, value)
  /\ UNCHANGED <<sources, annotations, todo, sent>>

(* certificateMetadata returns nil for an empty owner, team or e-mail; the *)
(* labels become elements as they are.                                     *)
Returned(k) == IF k \in Fields /\ value[k] = Empty THEN Unset ELSE value[k]

(* A field that is nil leaves what Horizon proposed; the labels replace    *)
(* the proposed ones, also when they are nil.                              *)
SubmitEnrollRequest ==
  /\ \/ phase = "submit" /\ phase' = "sent"
     \/ phase = "bare" /\ phase' = "sentBare"
  /\ sent' = [k \in Keys |-> IF k \in Fields /\ Returned(k) = Unset
                             THEN proposed[k] ELSE Returned(k)]
  /\ UNCHANGED <<sources, annotations, todo, value>>

MetadataNext ==
  \/ ReadSourcesFails \/ ApplyDefaults \/ MergeAnnotations
  \/ \E k \in Keys : VisitAnnotation(k)
  \/ ApplyOverride \/ SubmitEnrollRequest

MetadataSpec == MetadataInit /\ [][MetadataNext]_metadataVars

-----------------------------------------------------------------------------
(* Every variable stays in its type; the strings are never nil.            *)
MetadataTypeOK ==
  /\ defaultTemplate \in Source /\ overrideTemplate \in Source
  /\ ingress \in Source /\ certificate \in Source
  /\ proposed \in [Fields -> Strings]
  /\ phase \in Phases
  /\ annotations \in Source
  /\ todo \subseteq Keys
  /\ value \in Source /\ \A f \in Fields : value[f] \in Strings
  /\ sent \in Source

(* What the strongest source that sets k sets it to.                       *)
Winner(k) ==
  IF overrideTemplate[k] # Unset THEN overrideTemplate[k]
  ELSE IF certificate[k] # Unset THEN certificate[k]
  ELSE IF ingress[k] # Unset THEN ingress[k]
  ELSE defaultTemplate[k]

(* What Horizon receives, whatever the order in which the annotations were *)
(* visited: a label has the value of its strongest source and is left out  *)
(* when there is none; an owner, team or contact e-mail likewise, except   *)
(* that Horizon's own proposal fills in for an empty or a missing one.  So *)
(* an empty override hides a weaker value and does not replace it.  When   *)
(* the sources could not be read, no label is sent and Horizon's proposal  *)
(* stands.                                                                 *)
StrongestSourceSent ==
  /\ phase = "sent" =>
       /\ \A k \in Labels : sent[k] = Winner(k)
       /\ \A f \in Fields : sent[f] = IF Winner(f) \in Values THEN Winner(f)
                                                              ELSE proposed[f]
  /\ phase = "sentBare" =>
       /\ \A k \in Labels : sent[k] = Unset
       /\ \A f \in Fields : sent[f] = proposed[f]
=============================================================================
