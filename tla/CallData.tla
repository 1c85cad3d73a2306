------------------------------- MODULE CallData -------------------------------
(***************************************************************************)
(* The data of one call on its way through the templates of rpc.h: call    *)
(* marshalls the arguments, call1 adds the header, dispatch takes it off,  *)
(* the fn that reg generated reads the arguments and marshalls the result, *)
(* got_pdu and call_m take the reply apart.  The caller, the handler's     *)
(* signature and the caller's result type are chosen independently, as     *)
(* they are in the program: nothing but the bytes passes between the two.  *)
(***************************************************************************)
EXTENDS Marshall

CONSTANTS Vals,      \* the values of every type, a record of sets
          MaxArgs,   \* arguments of a call; the templates go up to seven
          Headers,   \* request headers: xid, proc, clt_nonce, srv_nonce, xid_rep
          WrongSigs, \* signatures of handlers other than the one meant
          Rets       \* what handlers return

VARIABLES pc,     \* where the call is
          m,      \* the marshall object in use: the request, then the reply
          u,      \* the unmarshall object in use
          args,   \* the arguments passed, each <<type, value>>
          h,      \* the request header
          sig,    \* the argument types of the handler
          seen,   \* the header fields read by the receiver
          got,    \* the arguments the handler is given, each <<type, value>>
          res,    \* the result the handler produced, and its return value
          r       \* the type of the caller's r, its value and call's return

dataVars == <<pc, m, u, args, h, sig, seen, got, res, r>>

Types == DOMAIN Vals
None == [none |-> TRUE]

\* What a byte, an int and an unsigned int can hold, and a string's characters.
Byte == 0..(B - 1)
Uint == 0..(W - 1)
Int4 == -(W \div 2)..(W \div 2 - 1)
IsString(v) == v \in Seq(Byte) /\ Len(v) \in Uint

\* v is a value of the C++ type t; a container has as many elements as the
\* unsigned int in front of them can count.
IsValue(t, v) ==
  CASE t = "bool" -> v \in BOOLEAN
    [] t = "char" -> v \in -(B \div 2)..(B \div 2 - 1)
    [] t = "uchar" -> v \in Byte
    [] t = "short" -> v \in -(H \div 2)..(H \div 2 - 1)
    [] t = "ushort" -> v \in 0..(H - 1)
    [] t = "int" -> v \in Int4
    [] t = "uint" -> v \in Uint
    [] t = "ull" -> v \in 0..(W * W - 1)
    [] t = "string" -> IsString(v)
    [] t = "vector" -> /\ v \in Seq(Seq(Byte)) /\ Len(v) \in Uint
                       /\ \A i \in DOMAIN v : IsString(v[i])
    [] t = "map" -> /\ IsFiniteSet(DOMAIN v) /\ Cardinality(DOMAIN v) \in Uint
                    /\ DOMAIN v \subseteq Int4 /\ v \in [DOMAIN v -> Int4]
    [] OTHER -> FALSE

TypeNames == {"bool", "char", "uchar", "short", "ushort", "int", "uint", "ull",
              "string", "vector", "map"}

\* The types and values that the program's declarations allow.
ASSUME DataAssumption ==
  /\ Types \subseteq TypeNames /\ \A t \in Types : \A v \in Vals[t] : IsValue(t, v)
  /\ MaxArgs \in Nat
  /\ Headers \subseteq [xid : Int4, proc : Int4, clt_nonce : Uint, srv_nonce : Uint, xid_rep : Int4]
  /\ WrongSigs \subseteq Seq(TypeNames)
  /\ Rets \subseteq Int4

\* rpc_const
atmostonce_failure == -4
oldsrv_failure == -5

Sig == [i \in DOMAIN args |-> args[i][1]]

DataInit == /\ pc = "args"
            /\ m = NewMarshall
            /\ u = NewUnmarshall(<<>>)
            /\ args = <<>> /\ h = None /\ sig = <<>> /\ seen = <<>> /\ got = <<>>
            /\ res = None /\ r = None

\* call: m << a1, m << a2, ...
MarshallArg(t, v) ==
  /\ pc = "args" /\ Len(args) < MaxArgs
  /\ m' = Put(m, t, v)
  /\ args' = Append(args, <<t, v>>)
  /\ UNCHANGED <<pc, u, h, sig, seen, got, res, r>>

\* call1 packs the header and sends; got_pdu gives the PDU to dispatch, whose
\* procs_ names a handler of signature s.
SendRequest(hd, s) ==
  /\ pc = "args"
  /\ h' = hd
  /\ m' = PackReqHeader(m, hd)
  /\ u' = NewUnmarshall(Pdu(m'))
  /\ sig' = s
  /\ pc' = "request"
  /\ UNCHANGED <<args, seen, got, res, r>>

\* dispatch: the header, or nothing at all if it is not whole.
UnpackRequest ==
  /\ pc = "request"
  /\ LET x == UnpackReqHeader(u)
     IN  /\ u' = x.u
         /\ seen' = x.h
         /\ pc' = IF x.u.ok THEN "dispatch" ELSE "dropped"
  /\ m' = NewMarshall
  /\ UNCHANGED <<args, h, sig, got, res, r>>

\* A reply without a result: an old server instance or a forgotten call.
Refuse(ret) ==
  /\ pc = "dispatch" /\ got = <<>>
  /\ m' = PackReplyHeader(m, seen.xid, ret)
  /\ u' = NewUnmarshall(Pdu(m'))
  /\ res' = [ret |-> ret]
  /\ pc' = "reply"
  /\ UNCHANGED <<args, h, sig, seen, got, r>>

\* fn: args >> a1, args >> a2, ...
UnmarshallArg ==
  /\ pc = "dispatch" /\ Len(got) < Len(sig)
  /\ LET t == sig[Len(got) + 1]
         x == Get(u, t)
     IN  /\ u' = x.u
         /\ got' = Append(got, <<t, x.v>>)
         /\ pc' = IF x.u.past THEN "undefined" ELSE pc
  /\ UNCHANGED <<m, args, h, sig, seen, res, r>>

\* fn: unmarshal_args_failure, on which dispatch aborts.
ArgsFailure ==
  /\ pc = "dispatch" /\ Len(got) = Len(sig) /\ ~Okdone(u)
  /\ pc' = "abort"
  /\ UNCHANGED <<m, u, args, h, sig, seen, got, res, r>>

\* fn: the handler runs and its result is marshalled; dispatch aborts on a
\* negative return value and packs the header of the reply otherwise.
RunHandler(t, v, ret) ==
  /\ pc = "dispatch" /\ Len(got) = Len(sig) /\ Okdone(u)
  /\ res' = [type |-> t, val |-> v, ret |-> ret]
  /\ IF ret < 0 THEN pc' = "abort" /\ UNCHANGED <<m, u>>
     ELSE /\ m' = PackReplyHeader(Put(m, t, v), seen.xid, ret)
          /\ u' = NewUnmarshall(Pdu(m'))
          /\ pc' = "reply"
  /\ UNCHANGED <<args, h, sig, seen, got, r>>

\* rpcc::got_pdu: the reply header; the buffer goes to the caller's unmarshall.
GotReply ==
  /\ pc = "reply"
  /\ LET x == UnpackReplyHeader(u)
     IN  /\ seen' = x.h
         /\ u' = TakeIn(x.u)
         /\ pc' = IF x.u.ok THEN "call_m" ELSE "dropped"
  /\ UNCHANGED <<m, args, h, sig, got, res, r>>

\* call_m with an R of type t: a negative return ends it before r is read, and
\* a reply that does not fit r ends in VERIFY(0).
CallM(t) ==
  /\ pc = "call_m"
  /\ IF seen.ret < 0 THEN /\ r' = [ret |-> seen.ret]
                          /\ pc' = "done"
                          /\ UNCHANGED u
     ELSE LET x == Get(u, t)
          IN  /\ u' = x.u
              /\ r' = [type |-> t, val |-> x.v, ret |-> seen.ret]
              /\ pc' = CASE x.u.past -> "undefined"
                         [] ~x.u.past /\ Okdone(x.u) -> "done"
                         [] OTHER -> "abort"
  /\ UNCHANGED <<m, args, h, sig, seen, got, res>>

DataNext == \/ \E t \in Types : \E v \in Vals[t] : MarshallArg(t, v)
            \/ \E hd \in Headers : \E s \in WrongSigs \union ({Sig} \ {<<>>}) : SendRequest(hd, s)
            \/ UnpackRequest
            \/ \E ret \in {atmostonce_failure, oldsrv_failure} : Refuse(ret)
            \/ UnmarshallArg \/ ArgsFailure
            \/ \E t \in Types : \E v \in Vals[t] : \E ret \in Rets : RunHandler(t, v, ret)
            \/ GotReply
            \/ \E t \in Types : CallM(t)

DataSpec == DataInit /\ [][DataNext]_dataVars

-------------------------------------------------------------------------------
(* Properties.                                                             *)

\* The cursor of a marshall object is inside its buffer, so that what was
\* written is there and take_buf gives away no more than was allocated.
InBuffer == m.ind <= Len(m.buf)

\* The sum of a sequence of numbers.
Total(s) == LET upto[n \in 0..Len(s)] == IF n = 0 THEN 0 ELSE upto[n - 1] + s[n]
            IN  upto[Len(s)]

\* The bytes that a value takes, from the sizes of the types, and those of a
\* list of arguments.
Size(t, v) ==
  CASE t \in {"bool", "char", "uchar"} -> 1
    [] t \in {"short", "ushort"} -> 2
    [] t \in {"int", "uint"} -> 4
    [] t = "ull" -> 8
    [] t = "string" -> 4 + Len(v)
    [] t = "vector" -> 4 + Total([i \in 1..Len(v) |-> 4 + Len(v[i])])
    [] t = "map" -> 4 + 8 * Cardinality(DOMAIN v)
Bytes(list) == Total([i \in 1..Len(list) |-> Size(list[i][1], list[i][2])])

HandlerRan == "type" \in DOMAIN res

\* A handler with the types of the caller's arguments gets the very values and
\* the very header, however often the buffer grew and whatever the sign bits,
\* and is never refused its arguments; one with other types runs only when its
\* arguments take as many bytes as the caller's (a map fewer, for of the pairs
\* with the same key it keeps one).
ArgumentsArrive ==
  /\ pc = "dispatch" => seen = h
  /\ HandlerRan => /\ Bytes(got) <= Bytes(args)
                   /\ (\A i \in DOMAIN sig : sig[i] # "map") => Bytes(got) = Bytes(args)
  /\ HandlerRan /\ sig = Sig => got = args
  /\ pc \in {"abort", "undefined"} /\ sig = Sig => HandlerRan

\* A call that returns has the return value and, if that is not negative, the
\* result that its own handler produced, and it aborts only when its R is not
\* the handler's or the handler returned a failure.
ResultArrives ==
  /\ pc \in {"call_m", "done"} => seen = [xid |-> h.xid, ret |-> res.ret]
  /\ pc = "done" => /\ r.ret = res.ret
                    /\ r.ret >= 0 /\ r.type = res.type => r.val = res.val
  /\ pc \in {"abort", "undefined"} /\ r # None => r.type # res.type
  /\ pc # "dropped"

\* What is marshalled is what is unmarshalled, in both directions.
RoundTrip == InBuffer /\ ArgumentsArrive /\ ResultArrives
===============================================================================
