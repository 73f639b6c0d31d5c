--------------------------- MODULE UchatTransport ---------------------------
(***************************************************************************)
(* How a string written with one SSL_write reaches the reader on the other *)
(* side of the TLS connection (read_client_socket of the client;           *)
(* fetch_client_data of the server is the same loop).  TLS cuts the string *)
(* into records, SSL_read returns one record at most, and the loop appends *)
(* records to its buffer until the byte AFTER what was read is zero: a     *)
(* byte of the fresh buffer that nobody has written.                       *)
(***************************************************************************)
EXTENDS Naturals, Sequences

CONSTANTS
    Fresh,          \* what a byte of a buffer just malloc'ed may be
    BufRecords      \* BUF_SIZE, in records

VARIABLES
    wire,           \* records sent and not read
    buffer,         \* records read into the buffer of the reader
    data_queue      \* the strings the reader has pushed

transport == <<wire, buffer, data_queue>>

Records(string, n) == [k \in 1..n |-> [string |-> string, part |-> k, of |-> n]]

\* cJSON_Parse takes the first value of its text and ignores what follows it:
\* a text is understood when it begins with a whole string.
StartsWhole(records) ==
    /\ Len(records) >= records[1].of
    /\ \A k \in 1..records[1].of : records[k] = [records[1] EXCEPT !.part = k]

SslWrite(string, n) == wire' = wire \o Records(string, n)

\* [mutant] the end is looked for before the read: the buffer may be empty
SslReadLate(fresh) ==
    LET read == Append(buffer, Head(wire)) IN
    /\ wire # << >>
    /\ wire' = Tail(wire)
    /\ IF fresh = 0 /\ Len(read) < BufRecords
       THEN data_queue' = Append(data_queue, buffer)
       ELSE UNCHANGED data_queue
    /\ buffer' = IF fresh = 0 \/ Len(read) >= BufRecords THEN << >> ELSE read

\* One SSL_read and the tests after it; a full buffer is thrown away.
SslRead(fresh) ==
    LET read == Append(buffer, Head(wire)) IN
    /\ wire # << >>
    /\ wire' = Tail(wire)
    /\ IF fresh = 0 /\ Len(read) < BufRecords
       THEN data_queue' = Append(data_queue, read)
       ELSE UNCHANGED data_queue
    /\ buffer' = IF fresh = 0 \/ Len(read) >= BufRecords THEN << >> ELSE read
=============================================================================
