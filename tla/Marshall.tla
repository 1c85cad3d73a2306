------------------------------- MODULE Marshall -------------------------------
(***************************************************************************)
(* marshall and unmarshall: a growing buffer of bytes written big-endian,  *)
(* and a cursor that reads it back.  A byte has B values (256 in the code, *)
(* fewer here), an int four bytes and a short two, so that every carry and *)
(* every sign bit of the code has its counterpart.  A buffer's capacity is *)
(* the length of its sequence; Junk stands for a byte nobody has written.  *)
(***************************************************************************)
EXTENDS Integers, Sequences, FiniteSets

CONSTANTS B,               \* values of a byte
          DEFAULT_RPC_SZ   \* capacity of a new buffer

H == B * B                 \* values of an unsigned short
W == H * H                 \* values of an unsigned int
Junk == B

\* The size word and the larger of the two headers, req_header's five ints.
RPC_SZ_T == 4
RPC_HEADER_SZ == 5 * 4 + RPC_SZ_T

\* A byte has a sign bit, and a new buffer room for the headers.
ASSUME SizeAssumption == /\ B \in Nat /\ B > 0 /\ B % 2 = 0
                         /\ DEFAULT_RPC_SZ \in Nat /\ DEFAULT_RPC_SZ >= RPC_HEADER_SZ

Signed(x, size) == IF x < size \div 2 THEN x ELSE x - size

-------------------------------------------------------------------------------
(* marshall: _buf and _ind; _capa is Len(buf).                             *)

NewMarshall == [buf |-> [i \in 1..DEFAULT_RPC_SZ |-> Junk], ind |-> RPC_HEADER_SZ]

Realloc(buf, capa) == [i \in 1..capa |-> IF i <= Len(buf) THEN buf[i] ELSE Junk]

\* marshall::rawbyte; what is passed is cut down to a byte.
Rawbyte(m, x) ==
  LET buf == IF m.ind >= Len(m.buf) THEN Realloc(m.buf, 2 * Len(m.buf)) ELSE m.buf
  IN  [buf |-> [buf EXCEPT ![m.ind + 1] = x % B], ind |-> m.ind + 1]

\* Mutant of Rawbytes: doubles, whatever is to be copied.
RawbytesDouble(m, p) ==
  LET buf == IF m.ind + Len(p) > Len(m.buf) THEN Realloc(m.buf, 2 * Len(m.buf)) ELSE m.buf
  IN  [buf |-> [i \in DOMAIN buf |-> IF i - m.ind \in DOMAIN p THEN p[i - m.ind] ELSE buf[i]],
       ind |-> m.ind + Len(p)]

\* marshall::rawbytes: room for all of p at once, then memcpy.
Rawbytes(m, p) ==
  LET n == Len(p)
      capa == Len(m.buf)
      buf == IF m.ind + n > capa
             THEN Realloc(m.buf, IF capa > n THEN 2 * capa ELSE capa + n)
             ELSE m.buf
  IN  [buf |-> [i \in DOMAIN buf |-> IF i - m.ind \in 1..n THEN p[i - m.ind] ELSE buf[i]],
       ind |-> m.ind + n]

\* operator<< for integers of two, four (marshall::pack too) and eight bytes:
\* the upper half first, and so the most significant byte first.
PutShort(m, x) == Rawbyte(Rawbyte(m, x \div B), x)
Pack(m, x) == PutShort(PutShort(m, x \div H), x)
PutLong(m, x) == Pack(Pack(m, x \div W), x)

PutString(m, s) == Rawbytes(Pack(m, Len(s)), s)

\* The container templates, of which a vector of strings and a map from int to
\* int are instances: the number of elements, then each, of a map in key order.
PutVector(m, v) ==
  LET put[n \in 0..Len(v)] == IF n = 0 THEN Pack(m, Len(v)) ELSE PutString(put[n - 1], v[n])
  IN  put[Len(v)]

Keys(d) == CHOOSE k \in [1..Cardinality(DOMAIN d) -> DOMAIN d] :
             \A i, j \in DOMAIN k : i < j => k[i] < k[j]

PutPair(m, k, x) == Pack(Pack(m, k), x)

PutMap(m, d) ==
  LET k == Keys(d)
      put[n \in 0..Len(k)] == IF n = 0 THEN Pack(m, Len(k))
                              ELSE PutPair(put[n - 1], k[n], d[k[n]])
  IN  put[Len(k)]

\* operator<< by type.
Put(m, t, v) ==
  CASE t = "bool" -> Rawbyte(m, IF v THEN 1 ELSE 0)
    [] t \in {"char", "uchar"} -> Rawbyte(m, v)
    [] t \in {"short", "ushort"} -> PutShort(m, v)
    [] t \in {"int", "uint"} -> Pack(m, v)
    [] t = "ull" -> PutLong(m, v)
    [] t = "string" -> PutString(m, v)
    [] t = "vector" -> PutVector(m, v)
    [] t = "map" -> PutMap(m, v)

\* pack_req_header and pack_reply_header: the fields go behind the size word,
\* and _ind returns to the end of the contents.
AtHeader(m) == [m EXCEPT !.ind = RPC_SZ_T]
PackReqHeader(m, h) ==
  [Pack(Pack(Pack(Pack(Pack(AtHeader(m), h.xid), h.proc), h.clt_nonce), h.srv_nonce), h.xid_rep)
     EXCEPT !.ind = m.ind]
PackReplyHeader(m, xid, ret) == [Pack(Pack(AtHeader(m), xid), ret) EXCEPT !.ind = m.ind]

\* What connection::send makes of cstr() and size(): writepdu puts the size in
\* the word left for it.
Pdu(m) == SubSeq(Pack([m EXCEPT !.ind = 0], m.ind).buf, 1, m.ind)

-------------------------------------------------------------------------------
(* unmarshall: _buf with its _sz, _ind, _ok.  past records a copy beyond   *)
(* the end of the buffer, whose outcome the language leaves open.          *)

NewUnmarshall(pdu) == [buf |-> pdu, ind |-> 0, ok |-> TRUE, past |-> FALSE]

\* unmarshall::rawbyte: c, as a signed char widened to unsigned int.
GetRaw(u) ==
  IF u.ind >= Len(u.buf) THEN [u |-> [u EXCEPT !.ok = FALSE], v |-> 0]
  ELSE [u |-> [u EXCEPT !.ind = @ + 1], v |-> Signed(u.buf[u.ind + 1], B) % W]

\* Mutant of GetUchar: the byte is or'ed in without & 0xff.
GetUcharSigned(u) == GetRaw(u)

\* operator>> for the unsigned types, each byte & 0xff, the upper half first;
\* GetSigned makes that the signed type of size values.
LowByte(c) == [u |-> c.u, v |-> c.v % B]
Join(h, l, size) == [u |-> l.u, v |-> h.v * size + l.v]
GetUchar(u) == LowByte(GetRaw(u))
GetUshort(u) == LET h == GetUchar(u) IN Join(h, GetUchar(h.u), B)
GetUint(u) == LET h == GetUshort(u) IN Join(h, GetUshort(h.u), H)
GetUlong(u) == LET h == GetUint(u) IN Join(h, GetUint(h.u), W)
GetSigned(x, size) == [u |-> x.u, v |-> Signed(x.v, size)]
GetInt(u) == GetSigned(GetUint(u), W)

\* unmarshall::rawbytes: the bound is tested in unsigned arithmetic, and a
\* string that does not fit leaves an empty one.
GetRawbytes(u, n) ==
  LET end == u.ind + n
  IN  CASE end % W > Len(u.buf) -> [u |-> [u EXCEPT !.ok = FALSE], v |-> <<>>]
        [] end <= Len(u.buf) -> [u |-> [u EXCEPT !.ind = end], v |-> SubSeq(u.buf, u.ind + 1, end)]
        [] OTHER -> [u |-> [u EXCEPT !.past = TRUE], v |-> <<>>]

\* operator>> for strings.
GetString(u) == LET sz == GetUint(u)
                IN  IF sz.u.ok THEN GetRawbytes(sz.u, sz.v) ELSE [u |-> sz.u, v |-> <<>>]

\* The turns of the loop of a container template over n elements of at least
\* size bytes.  Behind the end of the buffer each further turn leaves _ok false
\* and adds a default to an object that nobody will look at.
Turns(u, n, size) == LET room == (Len(u.buf) - u.ind) \div size
                     IN  IF n <= room THEN n ELSE room + 1

GetElement(acc) == LET x == GetString(acc.u) IN [u |-> x.u, v |-> Append(acc.v, x.v)]
GetVector(u) ==
  LET n == GetUint(u)
      last == Turns(n.u, n.v, 4)
      get[i \in 0..last] == IF i = 0 THEN [u |-> n.u, v |-> <<>>] ELSE GetElement(get[i - 1])
  IN  get[last]

GetPair(acc) ==
  LET a == GetInt(acc.u)
      b == GetInt(a.u)
  IN  [u |-> b.u, v |-> [k \in DOMAIN acc.v \union {a.v} |-> IF k = a.v THEN b.v ELSE acc.v[k]]]
GetMap(u) ==
  LET n == GetUint(u)
      last == Turns(n.u, n.v, 8)
      get[i \in 0..last] == IF i = 0 THEN [u |-> n.u, v |-> <<>>] ELSE GetPair(get[i - 1])
  IN  get[last]

\* operator>> by type, into an object just constructed.
Get(u, t) ==
  CASE t = "bool" -> LET r == GetRaw(u) IN [r EXCEPT !.v = @ # 0]
    [] t = "uchar" -> GetUchar(u)
    [] t = "char" -> GetSigned(GetUchar(u), B)
    [] t = "ushort" -> GetUshort(u)
    [] t = "short" -> GetSigned(GetUshort(u), H)
    [] t = "uint" -> GetUint(u)
    [] t = "int" -> GetInt(u)
    [] t = "ull" -> GetUlong(u)
    [] t = "string" -> GetString(u)
    [] t = "vector" -> GetVector(u)
    [] t = "map" -> GetMap(u)

\* unpack_req_header and unpack_reply_header: the fields behind the size word.
UnpackReqHeader(u) ==
  LET xid == GetInt(AtHeader(u))
      proc == GetInt(xid.u)
      clt == GetInt(proc.u)
      srv == GetInt(clt.u)
      rep == GetInt(srv.u)
  IN  [u |-> [rep.u EXCEPT !.ind = RPC_HEADER_SZ],
       h |-> [xid |-> xid.v, proc |-> proc.v, clt_nonce |-> clt.v % W, srv_nonce |-> srv.v % W,
              xid_rep |-> rep.v]]
UnpackReplyHeader(u) ==
  LET xid == GetInt(AtHeader(u))
      ret == GetInt(xid.u)
  IN  [u |-> [ret.u EXCEPT !.ind = RPC_HEADER_SZ], h |-> [xid |-> xid.v, ret |-> ret.v]]

\* unmarshall::take_in: the reply's buffer, behind its header.
TakeIn(u) == [u EXCEPT !.ind = RPC_HEADER_SZ, !.ok = Len(u.buf) >= RPC_HEADER_SZ]

Okdone(u) == u.ok /\ u.ind = Len(u.buf)
===============================================================================
