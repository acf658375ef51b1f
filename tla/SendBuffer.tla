----------------------------- MODULE SendBuffer -----------------------------
(***************************************************************************)
(* PhysicalBuffer and Endpoint::rma_send: one mapping whose first page takes  *)
(* the answers of register reads and whose other pages hold the words to      *)
(* send.  rma_send posts a put without any notification; the network card     *)
(* (external) fetches the words of the puts later, in order, while the user   *)
(* may already write the next ones.                                          *)
(***************************************************************************)
EXTENDS Naturals, Sequences

CONSTANTS page_size_qw, pages,
          Values,      \* words the user sends
          Unknown,     \* contents of memory nobody wrote or that is unmapped
          Answer,      \* what the card puts as answer of a register read
          MaxSends,    \* bound: puts posted through one mapping
          MaxWrites    \* bound: words written to one mapping

ASSUME MappingAssumption == page_size_qw \in Nat \ {0} /\ pages \in Nat \ {0}

VARIABLES
    m_buffer,     \* the mapping, by quad word
    puts,         \* puts posted and not yet fetched
    fetched,      \* words of the first put that were fetched
    delivered,    \* history: what the FPGA got, and should have got, per put
    sends, writes

sendVars == <<m_buffer, puts, fetched, delivered, sends, writes>>

\* Addresses in quad words from the start of the mapping.
response_address == 0

\* Faulty variant: the send pages start where the mapping starts.
send_address_unshifted == 0
send_address        == page_size_qw
send_buffer_size_qw == page_size_qw * (pages - 1)
Indices             == 0 .. send_buffer_size_qw - 1

read_send(index) == m_buffer[index + page_size_qw]

write_send(index, data) ==
    /\ writes < MaxWrites
    /\ writes' = writes + 1
    /\ m_buffer' = [m_buffer EXCEPT ![index + page_size_qw] = data]
    \* history: puts that have yet to fetch this word no longer send it
    /\ puts' = [i \in 1 .. Len(puts) |->
                  IF index < puts[i].size /\ (i = 1 => index >= Len(fetched))
                  THEN [puts[i] EXCEPT !.spoiled = TRUE] ELSE puts[i]]
    /\ UNCHANGED <<fetched, delivered, sends>>

\* rma_send: the put of the first words of the send pages is posted, or
\* FailedToWrite is thrown and nothing is sent.
rma_send(quad_words) ==
    /\ sends < MaxSends
    /\ sends' = sends + 1
    /\ \/ puts' = Append(puts, [size |-> quad_words, spoiled |-> FALSE,
                                words |-> [i \in 1 .. quad_words |-> read_send(i - 1)]])
       \/ UNCHANGED puts
    /\ UNCHANGED <<m_buffer, fetched, delivered, writes>>

\* The card fetches the next word of the first put; the last one completes it.
Fetch ==
    /\ puts # <<>>
    /\ LET words == Append(fetched, m_buffer[send_address + Len(fetched)])
       IN  IF Len(words) < Head(puts).size
           THEN fetched' = words /\ UNCHANGED <<puts, delivered>>
           ELSE /\ delivered' = Append(delivered,
                                   [got |-> words, put |-> Head(puts)])
                /\ puts' = Tail(puts) /\ fetched' = <<>>
    /\ UNCHANGED <<m_buffer, sends, writes>>

\* The card puts the answer of a read where the request said.
PutAnswer ==
    /\ m_buffer' = [m_buffer EXCEPT ![response_address] = Answer]
    /\ UNCHANGED <<puts, fetched, delivered, sends, writes>>

\* The mapping is made or removed.  Nothing is known of what the card sends
\* for the puts it has not fetched when the mapping is removed.
Remap ==
    /\ m_buffer' = [w \in 0 .. page_size_qw * pages - 1 |-> Unknown]
    /\ puts' = <<>> /\ fetched' = <<>> /\ delivered' = <<>>
    /\ sends' = 0 /\ writes' = 0

SendInit ==
    /\ m_buffer = [w \in 0 .. page_size_qw * pages - 1 |-> Unknown]
    /\ puts = <<>> /\ fetched = <<>> /\ delivered = <<>>
    /\ sends = 0 /\ writes = 0

-----------------------------------------------------------------------------
\* A put delivers the words that were in the send buffer when rma_send was
\* called, unless one of them was written again before the card fetched it:
\* later calls, the other words of the buffer and the answers of register
\* reads, which go to the same mapping, never show.
SendsSnapshot ==
    \A i \in 1 .. Len(delivered) :
        delivered[i].put.spoiled \/ delivered[i].got = delivered[i].put.words
=============================================================================
