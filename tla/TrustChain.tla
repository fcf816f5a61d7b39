----------------------------- MODULE TrustChain -----------------------------
(***************************************************************************)
(* buildPemTrustchain: the loop that turns the certificates Horizon        *)
(* returns, leaf first, into the PEM bundle of status.certificate and, if  *)
(* the last one is self-signed, the content of status.ca.  A bundle is the *)
(* sequence of its PEM blocks and of the line breaks between them.         *)
(***************************************************************************)
EXTENDS Integers, Sequences

CONSTANTS Pems,      \* the PEM encodings of certificates
          NewLine,   \* the line break
          NoCa,      \* the empty string that ca starts as
          MaxLength  \* the longest answer considered

Certificate == [pem: Pems, selfSigned: BOOLEAN]

ASSUME ChainAssumption ==
  NewLine \notin Pems /\ NoCa \notin Pems /\ MaxLength \in Nat

VARIABLES certs, \* the answer of Horizon
          i,     \* how many of them the loop has handled
          chain, \* the bundle so far
          ca     \* the root, once it was found

chainVars == <<certs, i, chain, ca>>

ChainInit ==
  /\ \E n \in 0..MaxLength : certs \in [1..n -> Certificate]
  /\ i = 0 /\ chain = <<>> /\ ca = NoCa

IsLast == i + 1 = Len(certs)

(* Any certificate but the last.                                           *)
AppendWithNewLine ==
  /\ i < Len(certs) /\ ~IsLast
  /\ chain' = chain \o <<certs[i + 1].pem, NewLine>>
  /\ i' = i + 1
  /\ UNCHANGED <<certs, ca>>

(* Mutant: a self-signed certificate is taken for the root anywhere.       *)
KeepAnyRoot ==
  /\ i < Len(certs) /\ certs[i + 1].selfSigned
  /\ ca' = certs[i + 1].pem
  /\ i' = i + 1
  /\ UNCHANGED <<certs, chain>>

(* The last certificate is a root: it becomes the ca.                      *)
KeepRoot ==
  /\ i < Len(certs) /\ IsLast /\ certs[i + 1].selfSigned
  /\ ca' = certs[i + 1].pem
  /\ i' = i + 1
  /\ UNCHANGED <<certs, chain>>

(* The last certificate is not a root: it ends the bundle.                 *)
AppendLast ==
  /\ i < Len(certs) /\ IsLast /\ ~certs[i + 1].selfSigned
  /\ chain' = Append(chain, certs[i + 1].pem)
  /\ i' = i + 1
  /\ UNCHANGED <<certs, ca>>

ChainNext == AppendWithNewLine \/ KeepRoot \/ AppendLast

ChainSpec == ChainInit /\ [][ChainNext]_chainVars

-----------------------------------------------------------------------------
(* The answer ends in a root.                                              *)
Rooted == certs # <<>> /\ certs[Len(certs)].selfSigned

(* How many certificates belong into the bundle.                           *)
Bundled == IF Rooted THEN Len(certs) - 1 ELSE Len(certs)

(* The bundle of status.certificate holds the certificates of the answer   *)
(* without its final root, in the order of the answer, with a line break   *)
(* between any two of them, and one after the last of them exactly if the  *)
(* root was cut off; a self-signed certificate elsewhere stays in it.  The *)
(* root that was cut off is the ca: the two together lose nothing.         *)
BundleInOrder ==
  i = Len(certs) =>
    /\ Len(chain) = IF Rooted THEN 2 * Bundled
                    ELSE IF certs = <<>> THEN 0 ELSE 2 * Bundled - 1
    /\ \A j \in 1..Bundled : chain[2 * j - 1] = certs[j].pem
    /\ \A j \in 1..Bundled : 2 * j <= Len(chain) => chain[2 * j] = NewLine
    /\ Rooted => ca = certs[Len(certs)].pem
=============================================================================
