-------------------------- MODULE TrustChainProofs --------------------------
(***************************************************************************)
(* buildPemTrustchain bundles a chain of any length in order.              *)
(***************************************************************************)
EXTENDS TrustChain, SequenceTheorems, TLAPS

Token == Pems \cup {NewLine}

ChainTypeOK ==
  /\ certs \in Seq(Certificate)
  /\ i \in 0..Len(certs)
  /\ chain \in Seq(Token)

(* The first n certificates are in place.                                  *)
PemsInPlace(n) == \A j \in 1..n : chain[2 * j - 1] = certs[j].pem

(* Before the last certificate every one of them is followed by a line     *)
(* break.                                                                  *)
Looping ==
  i < Len(certs) =>
    /\ Len(chain) = 2 * i
    /\ PemsInPlace(i)
    /\ \A j \in 1..i : chain[2 * j] = NewLine

ChainInv == ChainTypeOK /\ Looping /\ BundleInOrder

(* Nothing has been handled yet; an empty answer is finished already.      *)
LEMMA ChainStarts == ChainInit => ChainInv
  <1> SUFFICES ASSUME ChainInit PROVE ChainInv
    OBVIOUS
  <1>1. certs \in Seq(Certificate)
    <2>1. PICK n \in 0..MaxLength : certs \in [1..n -> Certificate]
      BY DEF ChainInit
    <2>2. n \in Nat
      BY ChainAssumption
    <2> QED BY <2>1, <2>2
  <1>2. /\ i = 0 /\ chain = <<>> /\ Len(certs) \in Nat
        /\ chain \in Seq(Token) /\ Len(chain) = 0
    BY <1>1 DEF ChainInit
  <1>3. ChainTypeOK
    BY <1>1, <1>2 DEF ChainTypeOK
  <1>4. Looping
    BY <1>2 DEF Looping, PemsInPlace
  <1>5. Len(certs) = 0 => certs = <<>>
    BY <1>1
  <1>6. BundleInOrder
    BY <1>2, <1>5 DEF BundleInOrder, Rooted, Bundled
  <1> QED
    BY <1>3, <1>4, <1>6 DEF ChainInv

(* Each turn of the loop handles one certificate.                          *)
LEMMA ChainSteps == ChainInv /\ [ChainNext]_chainVars => ChainInv'
  <1> SUFFICES ASSUME ChainInv, [ChainNext]_chainVars PROVE ChainInv'
    OBVIOUS
  <1>0. /\ certs \in Seq(Certificate) /\ Len(certs) \in Nat /\ i \in 0..Len(certs)
        /\ chain \in Seq(Token) /\ Len(chain) \in Nat
    BY DEF ChainInv, ChainTypeOK
  <1>1. ASSUME i < Len(certs)
        PROVE  /\ Len(chain) = 2 * i
               /\ \A j \in 1..i : chain[2 * j - 1] = certs[j].pem
               /\ \A j \in 1..i : chain[2 * j] = NewLine
               /\ certs[i + 1].pem \in Token
               /\ certs # <<>>
    <2>1. certs[i + 1] \in Certificate
      BY <1>0, <1>1
    <2> QED BY <1>0, <1>1, <2>1 DEF ChainInv, Looping, PemsInPlace, Certificate, Token
  <1>2. CASE AppendWithNewLine
    <2> DEFINE p == certs[i + 1].pem
    <2>1. /\ i < Len(certs) /\ i + 1 # Len(certs) /\ i' = i + 1 /\ certs' = certs
          /\ chain' = chain \o <<p, NewLine>>
      BY <1>2 DEF AppendWithNewLine, IsLast
    <2>2. /\ p \in Token /\ NewLine \in Token
      BY <1>1, <2>1 DEF Token
    <2>3. <<p, NewLine>> \in Seq(Token) /\ Len(<<p, NewLine>>) = 2
      BY <2>2
    <2>4. /\ chain' \in Seq(Token) /\ Len(chain') = 2 * i + 2
          /\ \A j \in 1..(2 * i) : chain'[j] = chain[j]
          /\ chain'[2 * i + 1] = p /\ chain'[2 * i + 2] = NewLine
      <3>1. /\ chain' \in Seq(Token) /\ Len(chain') = Len(chain) + 2
            /\ \A j \in 1..(Len(chain) + 2) :
                 chain'[j] = IF j <= Len(chain) THEN chain[j]
                             ELSE <<p, NewLine>>[j - Len(chain)]
        BY <1>0, <2>1, <2>3, ConcatProperties
      <3>2. Len(chain) = 2 * i /\ i \in Nat
        BY <1>0, <1>1, <2>1
      <3>3. \A j \in 1..(2 * i) : chain'[j] = chain[j]
        BY <3>1, <3>2
      <3>4. chain'[2 * i + 1] = <<p, NewLine>>[1] /\ chain'[2 * i + 2] = <<p, NewLine>>[2]
        BY <3>1, <3>2
      <3> QED BY <3>1, <3>2, <3>3, <3>4
    <2>5. ChainTypeOK'
      BY <1>0, <2>1, <2>4 DEF ChainTypeOK
    <2>6. ASSUME NEW j \in 1..(i + 1)
          PROVE  chain'[2 * j - 1] = certs[j].pem /\ chain'[2 * j] = NewLine
      <3>1. CASE j = i + 1
        BY <1>0, <2>4, <3>1
      <3>2. CASE j \in 1..i
        BY <1>0, <1>1, <2>1, <2>4, <3>2
      <3> QED BY <1>0, <3>1, <3>2
    <2>7. Looping'
      <3>1. Len(chain') = 2 * i'
        BY <1>0, <2>1, <2>4
      <3>2. \A j \in 1..i' : chain'[2 * j - 1] = certs'[j].pem /\ chain'[2 * j] = NewLine
        BY <2>1, <2>6
      <3> QED BY <3>1, <3>2 DEF Looping, PemsInPlace
    <2>8. i' # Len(certs')
      BY <2>1
    <2> QED BY <2>5, <2>7, <2>8 DEF ChainInv, BundleInOrder
  <1>3. CASE KeepRoot
    <2>1. /\ i < Len(certs) /\ i + 1 = Len(certs) /\ i' = i + 1 /\ certs' = certs
          /\ chain' = chain /\ certs[i + 1].selfSigned /\ ca' = certs[i + 1].pem
      BY <1>3 DEF KeepRoot, IsLast
    <2>2. ChainTypeOK' /\ Looping'
      BY <1>0, <2>1 DEF ChainTypeOK, Looping
    <2>3. Rooted' /\ Bundled' = i
      BY <1>0, <1>1, <2>1 DEF Rooted, Bundled
    <2>4. BundleInOrder'
      BY <1>0, <1>1, <2>1, <2>3 DEF BundleInOrder
    <2> QED BY <2>2, <2>4 DEF ChainInv
  <1>4. CASE AppendLast
    <2> DEFINE p == certs[i + 1].pem
    <2>1. /\ i < Len(certs) /\ i + 1 = Len(certs) /\ i' = i + 1 /\ certs' = certs
          /\ chain' = Append(chain, p) /\ ~certs[i + 1].selfSigned
      BY <1>4 DEF AppendLast, IsLast
    <2>2. /\ chain' \in Seq(Token) /\ Len(chain') = 2 * i + 1
          /\ \A j \in 1..(2 * i) : chain'[j] = chain[j]
          /\ chain'[2 * i + 1] = p
      BY <1>0, <1>1, <2>1
    <2>3. ChainTypeOK' /\ Looping'
      BY <1>0, <2>1, <2>2 DEF ChainTypeOK, Looping
    <2>4. ~Rooted' /\ Bundled' = i + 1 /\ certs' # <<>>
      BY <1>0, <1>1, <2>1 DEF Rooted, Bundled
    <2>5. /\ \A j \in 1..(i + 1) : chain'[2 * j - 1] = certs[j].pem
          /\ \A j \in 1..(i + 1) : 2 * j <= 2 * i + 1 => chain'[2 * j] = NewLine
      BY <1>0, <1>1, <2>1, <2>2
    <2>6. BundleInOrder'
      BY <1>0, <2>1, <2>2, <2>4, <2>5 DEF BundleInOrder
    <2> QED BY <2>3, <2>6 DEF ChainInv
  <1>5. CASE UNCHANGED chainVars
    BY <1>5 DEF chainVars, ChainInv, ChainTypeOK, Looping, PemsInPlace, BundleInOrder,
                Rooted, Bundled
  <1> QED
    BY <1>2, <1>3, <1>4, <1>5 DEF ChainNext

(* The bundle that buildPemTrustchain returns is in order and complete,    *)
(* for an answer of any length.                                            *)
THEOREM BundleIsInOrder == ChainSpec => []BundleInOrder
  <1>1. ChainInv => BundleInOrder
    BY DEF ChainInv
  <1> QED
    BY ChainStarts, ChainSteps, <1>1, PTL DEF ChainSpec
=============================================================================
