---------------------- MODULE CertificateMetadataProofs ---------------------
(***************************************************************************)
(* The strongest source reaches Horizon, for any fields, labels and        *)
(* strings, and for any order in which the annotations are visited.        *)
(***************************************************************************)
EXTENDS CertificateMetadata, TLAPS

Merged == Over(certificate, ingress)
Defaulted == Over(defaultTemplate, Zero)

(* The loop invariant: a visited annotation is in place, and an annotation *)
(* still to be visited has not touched the default.                        *)
Visiting ==
  phase = "visit" =>
    /\ annotations = Merged
    /\ \A k \in todo : annotations[k] # Unset
    /\ \A k \in Keys :
         value[k] = IF annotations[k] # Unset /\ k \notin todo
                    THEN annotations[k] ELSE Defaulted[k]

MetadataInv ==
  /\ MetadataTypeOK
  /\ phase = "merge" => value = Defaulted
  /\ Visiting
  /\ phase = "submit" => value = Over(overrideTemplate, Over(Merged, Defaulted))
  /\ phase \in {"defaults", "bare"} => value = Zero
  /\ StrongestSourceSent

(* Over of two sources is a source, and has a string wherever the lower    *)
(* one does.                                                               *)
LEMMA OverType ==
  ASSUME NEW u \in Source, NEW l \in Source
  PROVE  /\ Over(u, l) \in Source
         /\ \A k \in Keys : l[k] \in Strings => Over(u, l)[k] \in Strings
  BY MetadataAssumption DEF Over, Source, Strings

LEMMA ZeroType == Zero \in Source /\ \A f \in Fields : Zero[f] \in Strings
  BY MetadataAssumption DEF Zero, Source, Strings, Keys

(* What certificateMetadata starts from satisfies the invariant.           *)
LEMMA MetadataStarts == MetadataInit => MetadataInv
  <1>1. SUFFICES ASSUME MetadataInit PROVE MetadataInv
    OBVIOUS
  <1>2. Nothing \in Source
    BY DEF Nothing, Source, Strings
  <1>3. MetadataTypeOK
    BY <1>1, <1>2, ZeroType DEF MetadataInit, MetadataTypeOK, Phases
  <1> QED
    BY <1>1, <1>3 DEF MetadataInit, MetadataInv, Visiting, StrongestSourceSent

(* Every step of the computation, and a stuttering step, keeps it.         *)
LEMMA MetadataSteps == MetadataInv /\ [MetadataNext]_metadataVars => MetadataInv'
  <1> SUFFICES ASSUME MetadataInv, [MetadataNext]_metadataVars PROVE MetadataInv'
    OBVIOUS
  <1> USE MetadataAssumption
  <1>1. CASE ReadSourcesFails
    BY <1>1 DEF ReadSourcesFails, MetadataInv, MetadataTypeOK, Visiting, Zero,
                StrongestSourceSent, sources, Phases
  <1>2. CASE ApplyDefaults
    <2>1. value' \in Source /\ \A f \in Fields : value'[f] \in Strings
      BY <1>2, OverType, ZeroType DEF ApplyDefaults, MetadataInv, MetadataTypeOK, Keys
    <2>2. MetadataTypeOK'
      BY <1>2, <2>1 DEF ApplyDefaults, MetadataInv, MetadataTypeOK, sources, Phases
    <2>3. phase' = "merge" /\ value' = Defaulted'
      BY <1>2 DEF ApplyDefaults, Defaulted, Over, sources
    <2> QED BY <2>2, <2>3 DEF MetadataInv, Visiting, StrongestSourceSent
  <1>3. CASE MergeAnnotations
    <2>1. annotations' \in Source
      BY <1>3, OverType DEF MergeAnnotations, MetadataInv, MetadataTypeOK
    <2>2. MetadataTypeOK'
      BY <1>3, <2>1 DEF MergeAnnotations, MetadataInv, MetadataTypeOK, sources, Phases
    <2>3. /\ phase' = "visit" /\ annotations' = Merged'
          /\ \A k \in todo' : annotations'[k] # Unset
          /\ \A k \in Keys : annotations'[k] # Unset => k \in todo'
          /\ value' = Defaulted'
      BY <1>3 DEF MergeAnnotations, MetadataInv, Merged, Defaulted, Over, sources
    <2>4. Visiting'
      BY <2>3 DEF Visiting
    <2> QED BY <2>2, <2>3, <2>4 DEF MetadataInv, StrongestSourceSent
  <1>4. ASSUME NEW k \in Keys, VisitAnnotation(k) PROVE MetadataInv'
    <2>0. annotations[k] \in Strings
      BY <1>4 DEF VisitAnnotation, MetadataInv, Visiting, MetadataTypeOK, Source, Strings
    <2>1. value' \in Source /\ \A f \in Fields : value'[f] \in Strings
      BY <1>4, <2>0 DEF VisitAnnotation, MetadataInv, MetadataTypeOK, Source, Strings, Keys
    <2>2. MetadataTypeOK'
      BY <1>4, <2>1 DEF VisitAnnotation, MetadataInv, MetadataTypeOK, sources
    <2>3. /\ annotations' = Merged' /\ todo' = todo \ {k} /\ annotations[k] # Unset
          /\ \A j \in todo' : annotations'[j] # Unset
      BY <1>4 DEF VisitAnnotation, MetadataInv, Visiting, Merged, Over, sources
    <2>4. Defaulted' = Defaulted
      BY <1>4 DEF VisitAnnotation, Defaulted, Over, sources
    <2>5. ASSUME NEW j \in Keys
          PROVE  value'[j] = IF annotations'[j] # Unset /\ j \notin todo'
                             THEN annotations'[j] ELSE Defaulted'[j]
      BY <1>4, <2>3, <2>4 DEF VisitAnnotation, MetadataInv, Visiting, MetadataTypeOK, Source
    <2>6. Visiting'
      BY <2>3, <2>5 DEF Visiting
    <2>7. phase' = "visit"
      BY <1>4 DEF VisitAnnotation
    <2> QED BY <2>2, <2>6, <2>7 DEF MetadataInv, StrongestSourceSent
  <1>5. CASE ApplyOverride
    <2>1. value' \in Source /\ \A f \in Fields : value'[f] \in Strings
      BY <1>5, OverType DEF ApplyOverride, MetadataInv, MetadataTypeOK, Keys
    <2>2. MetadataTypeOK'
      BY <1>5, <2>1 DEF ApplyOverride, MetadataInv, MetadataTypeOK, sources, Phases
    <2>3. value = Over(Merged, Defaulted)
      BY <1>5 DEF ApplyOverride, MetadataInv, MetadataTypeOK, Visiting, Source, Over, Merged
    <2>4. phase' = "submit" /\ value' = Over(overrideTemplate, Over(Merged, Defaulted))'
      BY <1>5, <2>3 DEF ApplyOverride, Over, Merged, Defaulted, sources
    <2> QED BY <2>2, <2>4 DEF MetadataInv, Visiting, StrongestSourceSent
  <1>6. CASE SubmitEnrollRequest
    <2>1. sent' \in Source
      BY <1>6 DEF SubmitEnrollRequest, Returned, MetadataInv, MetadataTypeOK, Source, Strings
    <2>2. MetadataTypeOK'
      BY <1>6, <2>1 DEF SubmitEnrollRequest, MetadataInv, MetadataTypeOK, sources, Phases
    <2>3. phase = "submit" =>
            \A k \in Keys :
              value[k] = IF k \in Fields /\ Winner(k) = Unset THEN Empty ELSE Winner(k)
      BY <1>6 DEF SubmitEnrollRequest, MetadataInv, Over, Merged, Defaulted, Zero, Winner
    <2>4. \A k \in Keys : Winner(k)' = Winner(k) /\ Winner(k) \in Strings \cup {Unset}
      BY <1>6 DEF SubmitEnrollRequest, Winner, sources, MetadataInv, MetadataTypeOK, Source
    <2>5. CASE phase = "submit"
      <3>1. StrongestSourceSent'
        BY <1>6, <2>3, <2>4, <2>5 DEF SubmitEnrollRequest, Returned,
             StrongestSourceSent, Keys, Strings, sources
      <3> QED BY <1>6, <2>2, <2>5, <3>1 DEF SubmitEnrollRequest, MetadataInv, Visiting
    <2>6. CASE phase = "bare"
      <3>1. value = Zero
        BY <2>6 DEF MetadataInv
      <3>2. StrongestSourceSent'
        BY <1>6, <2>6, <3>1 DEF SubmitEnrollRequest, Returned, StrongestSourceSent,
             Zero, Keys, sources
      <3> QED BY <1>6, <2>2, <2>6, <3>2 DEF SubmitEnrollRequest, MetadataInv, Visiting
    <2> QED BY <1>6, <2>5, <2>6 DEF SubmitEnrollRequest
  <1>7. CASE UNCHANGED metadataVars
    BY <1>7 DEF metadataVars, sources, MetadataInv, MetadataTypeOK, Visiting, Merged,
                Defaulted, Over, StrongestSourceSent, Winner, Zero
  <1> QED
    BY <1>1, <1>2, <1>3, <1>4, <1>5, <1>6, <1>7 DEF MetadataNext

(* The strings certificateMetadata handles are never nil, so that no field *)
(* is dereferenced before a source or the zero value has set it.           *)
THEOREM MetadataTypeCorrect == MetadataSpec => []MetadataTypeOK
  <1>1. MetadataInv => MetadataTypeOK
    BY DEF MetadataInv
  <1> QED
    BY MetadataStarts, MetadataSteps, <1>1, PTL DEF MetadataSpec

(* What SubmitEnrollRequest sends is the strongest source's value, for any *)
(* order in which the map is visited.                                      *)
THEOREM StrongestReachesHorizon == MetadataSpec => []StrongestSourceSent
  <1>1. MetadataInv => StrongestSourceSent
    BY DEF MetadataInv
  <1> QED
    BY MetadataStarts, MetadataSteps, <1>1, PTL DEF MetadataSpec
=============================================================================
