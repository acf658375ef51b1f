-------------------------- MODULE SendBufferProofs --------------------------
(***************************************************************************)
(* What the operations on the send buffer preserve, for every size of the    *)
(* mapping and every set of words.  The operations are steps of Endpoint,    *)
(* whose proofs use these lemmas.                                            *)
(***************************************************************************)
EXTENDS SendBuffer, TLAPS

Word == Values \union {Unknown, Answer}
Put  == [size : 1 .. send_buffer_size_qw, spoiled : BOOLEAN, words : Seq(Word)]
Delivery == [got : Seq(Word), put : Put]

SendTypeOK ==
    /\ m_buffer \in [0 .. page_size_qw * pages - 1 -> Word]
    /\ puts \in Seq(Put) /\ fetched \in Seq(Word) /\ delivered \in Seq(Delivery)

\* The card is in the middle of the first put, if there is one.
FetchInProgress ==
    /\ puts = <<>> => fetched = <<>>
    /\ puts # <<>> => Len(fetched) < puts[1].size

\* The j-th word of the i-th put, as the card has fetched it or will find it.
Seen(i, j) == IF i = 1 /\ j <= Len(fetched) THEN fetched[j]
              ELSE m_buffer[send_address + j - 1]

\* A put that is not spoiled has got or will get the words rma_send saw.
PutsIntact ==
    \A i \in 1 .. Len(puts) :
        /\ Len(puts[i].words) = puts[i].size
        /\ ~puts[i].spoiled =>
             \A j \in 1 .. puts[i].size : Seen(i, j) = puts[i].words[j]

SendInv == SendTypeOK /\ FetchInProgress /\ PutsIntact /\ SendsSnapshot

-----------------------------------------------------------------------------
\* The words to send lie inside of the mapping and behind the response word.
LEMMA SendPages ==
    /\ send_buffer_size_qw \in Nat
    /\ response_address \in 0 .. page_size_qw * pages - 1
    /\ \A n \in 1 .. send_buffer_size_qw :
         /\ n \in Nat
         /\ send_address + n - 1 \in 0 .. page_size_qw * pages - 1
         /\ send_address + n - 1 # response_address
<1>1. page_size_qw * pages = page_size_qw + page_size_qw * (pages - 1)
  BY MappingAssumption
<1>2. page_size_qw * (pages - 1) \in Nat
  BY MappingAssumption
<1> QED
  BY <1>1, <1>2, MappingAssumption
  DEF send_buffer_size_qw, response_address, send_address

LEMMA InitSendInv == SendInit => SendInv
<1> SUFFICES ASSUME SendInit PROVE SendInv
  OBVIOUS
<1>1. SendTypeOK
  BY DEF SendInit, SendTypeOK, Word
<1> QED
  BY <1>1 DEF SendInit, SendInv, FetchInProgress, PutsIntact, SendsSnapshot

LEMMA RemapSendInv == Remap => SendInv'
<1> SUFFICES ASSUME Remap PROVE SendInv'
  OBVIOUS
<1>1. SendTypeOK'
  BY DEF Remap, SendTypeOK, Word
<1> QED
  BY <1>1 DEF Remap, SendInv, FetchInProgress, PutsIntact, SendsSnapshot

LEMMA UnchangedSendInv == SendInv /\ UNCHANGED sendVars => SendInv'
  BY DEF SendInv, SendTypeOK, FetchInProgress, PutsIntact, Seen, SendsSnapshot,
     sendVars

\* The answer of a register read goes to a word that no put sends.
LEMMA PutAnswerSendInv == SendInv /\ PutAnswer => SendInv'
<1> SUFFICES ASSUME SendInv, PutAnswer PROVE SendInv'
  OBVIOUS
<1> USE DEF SendInv, SendTypeOK
<1>1. UNCHANGED <<puts, fetched, delivered>>
  BY DEF PutAnswer
<1>2. SendTypeOK'
  BY <1>1, SendPages DEF PutAnswer, Word
<1>3. \A n \in 1 .. send_buffer_size_qw :
        m_buffer'[send_address + n - 1] = m_buffer[send_address + n - 1]
  BY SendPages DEF PutAnswer
<1>4. PutsIntact'
  <2> SUFFICES ASSUME NEW i \in 1 .. Len(puts)
               PROVE  /\ Len(puts[i].words) = puts[i].size
                      /\ ~puts[i].spoiled =>
                           \A j \in 1 .. puts[i].size : Seen(i, j)' = puts[i].words[j]
    BY <1>1 DEF PutsIntact
  <2>1. puts[i] \in Put
    OBVIOUS
  <2>2. \A j \in 1 .. puts[i].size : j \in 1 .. send_buffer_size_qw
    BY <2>1, SendPages DEF Put
  <2>3. \A j \in 1 .. puts[i].size : Seen(i, j)' = Seen(i, j)
    BY <1>1, <1>3, <2>2 DEF Seen
  <2> QED BY <2>3 DEF PutsIntact
<1> QED BY <1>1, <1>2, <1>4 DEF FetchInProgress, SendsSnapshot

\* A word written to the send buffer shows only in puts that are marked.
LEMMA WriteSendInv ==
    ASSUME SendInv, NEW index \in Indices, NEW data \in Values, write_send(index, data)
    PROVE  SendInv'
<1> USE DEF SendInv, SendTypeOK
<1>1. UNCHANGED <<fetched, delivered>>
  BY DEF write_send
<1>2. /\ index + 1 \in 1 .. send_buffer_size_qw
      /\ index + page_size_qw = send_address + (index + 1) - 1
      /\ index + page_size_qw \in 0 .. page_size_qw * pages - 1
  <2>1. index \in Nat /\ index + 1 \in 1 .. send_buffer_size_qw
    BY SendPages DEF Indices
  <2>2. index + page_size_qw = send_address + (index + 1) - 1
    BY <2>1, MappingAssumption DEF send_address
  <2> QED BY <2>1, <2>2, SendPages
<1>3. m_buffer' \in [0 .. page_size_qw * pages - 1 -> Word]
  BY <1>2 DEF write_send, Word
<1>4. \A n \in 1 .. send_buffer_size_qw :
        n # index + 1 =>
          m_buffer'[send_address + n - 1] = m_buffer[send_address + n - 1]
  <2> SUFFICES ASSUME NEW n \in 1 .. send_buffer_size_qw, n # index + 1
               PROVE  m_buffer'[send_address + n - 1] = m_buffer[send_address + n - 1]
    OBVIOUS
  <2>1. n \in Nat /\ index \in Nat /\ page_size_qw \in Nat
    BY SendPages, MappingAssumption DEF Indices
  <2>2. send_address + n - 1 # index + page_size_qw
    BY <2>1 DEF send_address
  <2> QED BY <1>2, <2>2, SendPages DEF write_send
<1> DEFINE hit(i) == index < puts[i].size /\ (i = 1 => index >= Len(fetched))
<1>5. /\ puts' \in Seq(Put) /\ Len(puts') = Len(puts)
      /\ \A i \in 1 .. Len(puts) :
           /\ puts[i] \in Put
           /\ puts'[i].size = puts[i].size /\ puts'[i].words = puts[i].words
           /\ ~puts'[i].spoiled => ~puts[i].spoiled /\ ~hit(i)
  <2>1. puts' = [i \in 1 .. Len(puts) |->
                  IF hit(i) THEN [puts[i] EXCEPT !.spoiled = TRUE] ELSE puts[i]]
    BY DEF write_send
  <2> HIDE DEF hit
  <2>2. ASSUME NEW i \in 1 .. Len(puts)
        PROVE  /\ puts[i] \in Put
               /\ [puts[i] EXCEPT !.spoiled = TRUE] \in Put
               /\ [puts[i] EXCEPT !.spoiled = TRUE].size = puts[i].size
               /\ [puts[i] EXCEPT !.spoiled = TRUE].words = puts[i].words
               /\ [puts[i] EXCEPT !.spoiled = TRUE].spoiled = TRUE
    <3>1. puts[i] \in Put
      OBVIOUS
    <3> QED BY <3>1 DEF Put
  <2>3. Len(puts) \in Nat
    OBVIOUS
  <2>4. puts' \in [1 .. Len(puts) -> Put]
    BY <2>1, <2>2
  <2>5. puts' \in Seq(Put) /\ Len(puts') = Len(puts)
    BY <2>3, <2>4
  <2> QED BY <2>1, <2>2, <2>5
<1>6. PutsIntact'
  <2> SUFFICES ASSUME NEW i \in 1 .. Len(puts)
               PROVE  /\ Len(puts'[i].words) = puts'[i].size
                      /\ ~puts'[i].spoiled =>
                           \A j \in 1 .. puts'[i].size : Seen(i, j)' = puts'[i].words[j]
    BY <1>5 DEF PutsIntact
  <2>1. Len(puts'[i].words) = puts'[i].size
    BY <1>5 DEF PutsIntact
  <2>2. ASSUME ~puts'[i].spoiled, NEW j \in 1 .. puts'[i].size
        PROVE  Seen(i, j)' = puts'[i].words[j]
    <3>0. ~puts[i].spoiled /\ ~hit(i) /\ puts[i] \in Put /\ j \in 1 .. puts[i].size
      BY <1>5, <2>2
    <3>1. /\ j \in 1 .. puts[i].size /\ j \in 1 .. send_buffer_size_qw
          /\ j \in Nat /\ puts[i].size \in Nat
      <4>1. puts[i].size \in 1 .. send_buffer_size_qw
        BY <3>0 DEF Put
      <4> QED BY <3>0, <4>1, SendPages
    <3>2. ~puts[i].spoiled /\ ~hit(i) /\ Len(fetched) \in Nat /\ index \in Nat
      BY <3>0, SendPages DEF Indices
    <3>3. Seen(i, j) = puts'[i].words[j]
      BY <1>5, <3>1, <3>2 DEF PutsIntact
    <3>4. j = index + 1 => i = 1 /\ j <= Len(fetched)
      BY <3>1, <3>2
    <3> QED BY <1>1, <1>4, <3>1, <3>3, <3>4 DEF Seen
  <2> QED BY <2>1, <2>2
<1>7. FetchInProgress'
  <2>1. puts' # <<>> => puts # <<>> /\ 1 \in 1 .. Len(puts)
    BY <1>5
  <2>2. puts' = <<>> => puts = <<>>
    BY <1>5
  <2> QED BY <1>1, <1>5, <2>1, <2>2 DEF FetchInProgress
<1> QED BY <1>1, <1>3, <1>5, <1>6, <1>7 DEF SendsSnapshot

\* A put that is posted finds the words of this moment.
LEMMA RmaSendInv ==
    ASSUME SendInv, NEW n \in 1 .. send_buffer_size_qw, rma_send(n)
    PROVE  SendInv'
<1> USE DEF SendInv, SendTypeOK
<1>1. UNCHANGED <<m_buffer, fetched, delivered>>
  BY DEF rma_send
<1> DEFINE words == [i \in 1 .. n |-> read_send(i - 1)]
           put   == [size |-> n, spoiled |-> FALSE, words |-> words]
<1>2. CASE UNCHANGED puts
  BY <1>1, <1>2 DEF FetchInProgress, PutsIntact, Seen, SendsSnapshot
<1>3. CASE puts' = Append(puts, put)
  <2>1. n \in Nat /\ \A j \in 1 .. n : j \in 1 .. send_buffer_size_qw
    BY SendPages
  <2>2. \A j \in 1 .. n : /\ words[j] = m_buffer[send_address + j - 1]
                          /\ words[j] \in Word
    <3> SUFFICES ASSUME NEW j \in 1 .. n
                 PROVE  /\ words[j] = m_buffer[send_address + j - 1]
                        /\ words[j] \in Word
      OBVIOUS
    <3>1. j \in 1 .. send_buffer_size_qw /\ j \in Nat
      BY <2>1, SendPages
    <3>2. (j - 1) + page_size_qw = send_address + j - 1
      BY <3>1, MappingAssumption DEF send_address
    <3>3. words[j] = m_buffer[send_address + j - 1]
      BY <3>2 DEF read_send
    <3> QED BY <3>1, <3>3, SendPages
  <2>3. words \in Seq(Word) /\ Len(words) = n
    BY <2>1, <2>2
  <2> HIDE DEF words
  <2>4. put \in Put /\ put.size = n /\ put.words = words
    BY <2>3 DEF Put
  <2> HIDE DEF put
  <2>5. /\ puts' \in Seq(Put) /\ Len(puts') = Len(puts) + 1 /\ Len(puts) \in Nat
        /\ \A i \in 1 .. Len(puts) : puts'[i] = puts[i]
        /\ puts'[Len(puts) + 1] = put
    BY <1>3, <2>4
  <2>6. Len(fetched) \in Nat /\ (puts = <<>> => Len(fetched) = 0)
    BY DEF FetchInProgress
  <2>7. FetchInProgress'
    <3>1. puts' # <<>>
      BY <2>5
    <3>2. CASE puts = <<>>
      BY <1>1, <2>1, <2>4, <2>5, <2>6, <3>1, <3>2 DEF FetchInProgress
    <3>3. CASE puts # <<>>
      <4>1. 1 \in 1 .. Len(puts)
        BY <2>5, <3>3
      <4> QED BY <1>1, <2>5, <3>1, <3>3, <4>1 DEF FetchInProgress
    <3> QED BY <3>2, <3>3
  <2>8. PutsIntact'
    <3> SUFFICES ASSUME NEW i \in 1 .. Len(puts')
                 PROVE  /\ Len(puts'[i].words) = puts'[i].size
                        /\ ~puts'[i].spoiled =>
                             \A j \in 1 .. puts'[i].size : Seen(i, j) = puts'[i].words[j]
      BY <1>1 DEF PutsIntact, Seen
    <3>1. CASE i \in 1 .. Len(puts)
      BY <2>5, <3>1 DEF PutsIntact
    <3>2. CASE i = Len(puts) + 1
      <4>1. \A j \in 1 .. n : ~(i = 1 /\ j <= Len(fetched))
        BY <2>1, <2>5, <2>6, <3>2
      <4> QED BY <2>2, <2>3, <2>4, <2>5, <3>2, <4>1 DEF Seen
    <3> QED BY <2>5, <3>1, <3>2
  <2> QED BY <1>1, <2>5, <2>7, <2>8 DEF SendsSnapshot
<1> QED BY <1>2, <1>3 DEF rma_send

\* The card fetches a word; the last one completes a put that is intact.
LEMMA FetchSendInv == SendInv /\ Fetch => SendInv'
<1> SUFFICES ASSUME SendInv, Fetch PROVE SendInv'
  OBVIOUS
<1> USE DEF SendInv, SendTypeOK
<1> DEFINE k     == Len(fetched)
           words == Append(fetched, m_buffer[send_address + k])
<1>1. /\ puts # <<>> /\ UNCHANGED m_buffer
      /\ IF Len(words) < Head(puts).size
         THEN fetched' = words /\ UNCHANGED <<puts, delivered>>
         ELSE /\ delivered' = Append(delivered, [got |-> words, put |-> Head(puts)])
              /\ puts' = Tail(puts) /\ fetched' = <<>>
  BY DEF Fetch
<1>2. /\ Len(puts) \in Nat /\ 1 \in 1 .. Len(puts) /\ Head(puts) = puts[1]
      /\ puts[1] \in Put
  BY <1>1
<1>3. /\ puts[1].size \in Nat /\ puts[1].size <= send_buffer_size_qw
      /\ send_buffer_size_qw \in Nat /\ puts[1].words \in Seq(Word)
  BY <1>2, SendPages DEF Put
<1>4. k \in Nat /\ k < puts[1].size
  BY <1>1 DEF FetchInProgress
<1>5. k + 1 \in 1 .. send_buffer_size_qw
  BY <1>3, <1>4
<1>6. send_address + k = send_address + (k + 1) - 1
  BY <1>4, MappingAssumption DEF send_address
<1>7. send_address + k \in 0 .. page_size_qw * pages - 1
  BY <1>5, <1>6, SendPages
<1>8. m_buffer[send_address + k] \in Word
  BY <1>7
<1>9. /\ words \in Seq(Word) /\ Len(words) = k + 1
      /\ \A j \in 1 .. k : words[j] = fetched[j]
      /\ words[k + 1] = m_buffer[send_address + k]
  BY <1>8
<1>10. \A j \in 1 .. k + 1 : words[j] = Seen(1, j)
  <2> SUFFICES ASSUME NEW j \in 1 .. k + 1 PROVE words[j] = Seen(1, j)
    OBVIOUS
  <2> HIDE DEF words
  <2>1. CASE j <= Len(fetched)
    BY <1>4, <1>9, <2>1 DEF Seen
  <2>2. CASE ~(j <= Len(fetched))
    <3>1. j = k + 1
      BY <1>4, <2>2
    <3> QED BY <1>6, <1>9, <2>2, <3>1 DEF Seen
  <2> QED BY <2>1, <2>2
<1> HIDE DEF words
<1>11. CASE Len(words) < Head(puts).size
  <2>1. fetched' = words /\ UNCHANGED <<m_buffer, puts, delivered>>
    BY <1>1, <1>11
  <2>2. FetchInProgress'
    BY <1>1, <1>2, <1>11, <2>1 DEF FetchInProgress
  <2>3. \A i \in 1 .. Len(puts), j \in Nat : j >= 1 => Seen(i, j)' = Seen(i, j)
    BY <1>4, <1>9, <1>10, <2>1 DEF Seen
  <2>4. \A i \in 1 .. Len(puts) : \A j \in 1 .. puts[i].size : j \in Nat /\ j >= 1
    BY SendPages DEF Put
  <2>5. PutsIntact'
    BY <2>1, <2>3, <2>4 DEF PutsIntact
  <2> QED BY <1>9, <2>1, <2>2, <2>5 DEF SendsSnapshot
<1>12. CASE ~(Len(words) < Head(puts).size)
  <2>1. /\ delivered' = Append(delivered, [got |-> words, put |-> puts[1]])
        /\ puts' = Tail(puts) /\ fetched' = <<>> /\ m_buffer' = m_buffer
    BY <1>1, <1>2, <1>12
  <2>2. Len(words) = puts[1].size
    BY <1>2, <1>3, <1>4, <1>9, <1>12
  <2>3. puts[1].spoiled \/ words = puts[1].words
    <3>1. Len(puts[1].words) = puts[1].size
      BY <1>2 DEF PutsIntact
    <3>2. ASSUME ~puts[1].spoiled
          PROVE  \A j \in 1 .. puts[1].size : words[j] = puts[1].words[j]
      BY <1>2, <1>9, <1>10, <2>2, <3>2 DEF PutsIntact
    <3>3. ASSUME NEW t \in Seq(Word), Len(t) = Len(words),
                 \A j \in 1 .. Len(words) : words[j] = t[j]
          PROVE  words = t
      BY <1>9, <3>3
    <3> QED BY <1>3, <2>2, <3>1, <3>2, <3>3
  <2>4. [got |-> words, put |-> puts[1]] \in Delivery
    BY <1>2, <1>9 DEF Delivery
  <2>5. delivered' \in Seq(Delivery) /\ SendsSnapshot'
    <3>1. /\ delivered' \in Seq(Delivery) /\ Len(delivered) \in Nat
          /\ Len(delivered') = Len(delivered) + 1
          /\ \A i \in 1 .. Len(delivered) : delivered'[i] = delivered[i]
          /\ delivered'[Len(delivered) + 1] = [got |-> words, put |-> puts[1]]
      BY <2>1, <2>4
    <3> DEFINE new == delivered'[Len(delivered) + 1]
    <3>2. new.got = words /\ new.put = puts[1]
      BY <3>1
    <3>3. \A i \in 1 .. Len(delivered') : i \in 1 .. Len(delivered) \/ i = Len(delivered) + 1
      BY <3>1
    <3> HIDE DEF new
    <3>4. new.put.spoiled \/ new.got = new.put.words
      BY <2>3, <3>2
    <3> QED BY <3>1, <3>3, <3>4 DEF SendsSnapshot, new
  <2>6. /\ puts' \in Seq(Put) /\ Len(puts') = Len(puts) - 1
        /\ \A i \in 1 .. Len(puts') : i + 1 \in 1 .. Len(puts) /\ puts'[i] = puts[i + 1]
    BY <1>1, <1>2, <2>1
  <2>7. FetchInProgress'
    <3>1. puts' # <<>> => puts'[1] \in Put
      BY <2>6
    <3>2. puts' # <<>> => puts'[1].size \in Nat /\ 0 < puts'[1].size
      BY <3>1, SendPages DEF Put
    <3> QED BY <2>1, <3>2 DEF FetchInProgress
  <2>8. PutsIntact'
    <3> SUFFICES ASSUME NEW i \in 1 .. Len(puts')
                 PROVE  /\ Len(puts'[i].words) = puts'[i].size
                        /\ ~puts'[i].spoiled =>
                             \A j \in 1 .. puts'[i].size : Seen(i, j)' = puts'[i].words[j]
      BY DEF PutsIntact
    <3>1. i + 1 \in 1 .. Len(puts) /\ puts'[i] = puts[i + 1] /\ i + 1 # 1
      BY <1>2, <2>6
    <3>2. \A j \in 1 .. puts[i + 1].size : j \in Nat /\ j >= 1
      BY <3>1, SendPages DEF Put
    <3>3. \A j \in 1 .. puts[i + 1].size : Seen(i, j)' = Seen(i + 1, j)
      BY <2>1, <3>1, <3>2 DEF Seen
    <3> QED BY <3>1, <3>3 DEF PutsIntact
  <2> QED BY <2>1, <2>5, <2>6, <2>7, <2>8
<1> QED BY <1>11, <1>12
=============================================================================
