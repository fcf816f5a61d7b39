---------------------------- MODULE MCAlgorithms ---------------------------
(***************************************************************************)
(* The two computations that happen inside a single call, neither of which *)
(* looks at the other's data: the metadata of an enrollment, with one      *)
(* field and one label, each set by any of the four sources to one of two  *)
(* interchangeable strings, to the empty string or not at all; and the     *)
(* trust chain, for every answer of up to four certificates over three     *)
(* encodings.  Each is given all of its inputs while the other one has     *)
(* nothing to do.                                                          *)
(***************************************************************************)
EXTENDS CertificateMetadata, TrustChain, TLC

AlgorithmsInit ==
  \/ /\ certs = <<>> /\ ChainInit
     /\ MetadataInit
  \/ /\ defaultTemplate = Nothing /\ overrideTemplate = Nothing
     /\ ingress = Nothing /\ certificate = Nothing /\ MetadataInit
     /\ ChainInit

AlgorithmsNext ==
  \/ MetadataNext /\ UNCHANGED chainVars
  \/ ChainNext /\ UNCHANGED metadataVars

AlgorithmsSpec == AlgorithmsInit /\ [][AlgorithmsNext]_<<metadataVars, chainVars>>

StringSymmetry == Permutations(Values) \cup Permutations(Pems)
=============================================================================
