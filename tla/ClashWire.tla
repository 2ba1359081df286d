----------------------------- MODULE ClashWire -----------------------------
(***************************************************************************)
(* What the proxy reads and writes (internal/native/clash_vless.go): its   *)
(* configuration, the VLESS request and response, and the stream made of   *)
(* websocket messages.                                                     *)
(*                                                                         *)
(* A value of the configuration is a pair of its JSON kind and what it     *)
(* holds; an object is a function on its keys.  Texts occur as words; the  *)
(* tables say what lower case and white space do to those that matter.     *)
(***************************************************************************)
EXTENDS Integers, Sequences, SequencesExt, FiniteSets, FiniteSetsExt, Functions, TLC

Num(n) == <<"num", n>>
Text(s) == <<"text", s>>
Bool(b) == <<"bool", b>>
Object(f) == <<"object", f>>
List(xs) == <<"list", xs>>
Absent == <<"absent">>

Get(m, key) == IF key \in DOMAIN m THEN m[key] ELSE Absent
IsObject(v) == v[1] = "object"

Lowered == [VLESS |-> "vless", WS |-> "ws", TRUE |-> "true"]
Lower(s) == IF s \in DOMAIN Lowered THEN Lowered[s] ELSE s
Blank == {"", " "}
Numbers == [i \in 0 .. 9 |-> ToString(i)]

AsString(v) ==
  CASE v[1] = "absent" -> ""
    [] v[1] = "text" -> v[2]
    [] v[1] \in {"num", "bool"} -> ToString(v[2])

\* A number, or a text that is one; <<>> is none.
AsInt(v) ==
  CASE v[1] = "num" -> <<v[2]>>
    [] v[1] = "text" /\ v[2] \in Range(Numbers) -> <<CHOOSE n \in 0 .. 9 : Numbers[n] = v[2]>>
    [] OTHER -> <<>>

AsBool(v) ==
  CASE v[1] = "bool" -> v[2]
    [] v[1] = "text" -> Lower(v[2]) \in {"1", "true", "yes"}
    [] v[1] = "num" -> v[2] # 0
    [] OTHER -> FALSE

\* The first of the keys that holds a text, or else the last resort.
FirstText(m, keys, otherwise) ==
  LET set == SelectSeq(keys, LAMBDA k : AsString(Get(m, k)) # "")
  IN IF set = <<>> THEN otherwise ELSE AsString(Get(m, set[1]))

Positive(v) == AsInt(v) # <<>> /\ AsInt(v)[1] > 0
SocksPort(raw) ==
  LET set == SelectSeq(<<"socks-port", "port", "mixed-port">>, LAMBDA k : Positive(Get(raw, k)))
  IN IF set = <<>> THEN 10808 ELSE AsInt(raw[set[1]])[1]

Candidates(raw) ==
  LET inList == IF Get(raw, "proxies")[1] # "list" THEN <<>>
                ELSE LET ms == SelectSeq(raw["proxies"][2], IsObject)
                     IN [i \in DOMAIN ms |-> ms[i][2]]
      single == IF IsObject(Get(raw, "proxy")) THEN <<raw["proxy"][2]>> ELSE <<>>
  IN IF inList \o single # <<>> THEN inList \o single
     ELSE IF "server" \in DOMAIN raw THEN <<raw>> ELSE <<>>

NetworkOf(m) == IF AsString(Get(m, "network")) = "" THEN "tcp" ELSE Lower(AsString(m["network"]))

LiteProxyOK(m) ==
  /\ Lower(AsString(Get(m, "type"))) \in {"", "vless"}
  /\ "reality-opts" \notin DOMAIN m
  /\ AsString(Get(m, "flow")) \in Blank
  /\ NetworkOf(m) \in {"tcp", "ws"}

\* Mistake: the wanted number counts the entries that are usable.
CountsUsable(raw, i) ==
  Cardinality({j \in 1 .. i : LiteProxyOK(Candidates(raw)[j])}) - 1

Number(raw, i) == i - 1

Wanted(raw, i) ==
  LET idx == AsInt(Get(raw, "proxy-index"))
      name == AsString(Get(raw, "proxy-name"))
  IN /\ idx # <<>> /\ idx[1] >= 0 => Number(raw, i) = idx[1]
     /\ name # "" => AsString(Get(Candidates(raw)[i], "name")) = name

Uuids == {"u1", "u2"}  \* texts of 32 digits, with or without hyphens
Rooted(path) == IF path \in {"/", "/p"} THEN path ELSE "/" \o path

WsHost(m, sni) ==
  LET opts == Get(m, "ws-opts")
      headers == IF IsObject(opts) THEN Get(opts[2], "headers") ELSE Absent
  IN IF IsObject(headers) THEN FirstText(headers[2], <<"Host", "host">>, sni) ELSE sni
WsPath(m) ==
  LET opts == Get(m, "ws-opts")
      given == IF IsObject(opts) THEN FirstText(opts[2], <<"path">>, "/") ELSE "/"
  IN Rooted(FirstText(m, <<"ws-path">>, given))

Insecure(m) ==
  LET set == SelectSeq(<<"skip-cert-verify", "insecure", "allowInsecure">>,
                       LAMBDA k : k \in DOMAIN m)
  IN set = <<>> \/ AsBool(m[set[1]])

NoNode == [name |-> ""]
MapToVlessNode(m) ==
  LET server == AsString(Get(m, "server"))
      uuid == FirstText(m, <<"uuid", "id">>, "")
      sni == FirstText(m, <<"servername", "sni">>, server)
  IN IF server = "" \/ ~Positive(Get(m, "port")) \/ uuid \notin Uuids THEN NoNode
     ELSE [name |-> FirstText(m, <<"name">>, "vless-1"), server |-> server,
           port |-> AsInt(m["port"])[1], uuid |-> uuid,
           tls |-> AsBool(Get(m, "tls")) \/ AsBool(Get(m, "TLS")), sni |-> sni,
           insecure |-> Insecure(m), network |-> NetworkOf(m),
           path |-> WsPath(m), host |-> WsHost(m, sni)]

\* An entry that fails after it was chosen is not passed over.
ParseClashConfig(raw) ==
  LET cs == Candidates(raw)
      usable == {i \in DOMAIN cs : Wanted(raw, i) /\ LiteProxyOK(cs[i])}
  IN IF usable = {} THEN [node |-> NoNode, port |-> 0]
     ELSE LET node == MapToVlessNode(cs[Min(usable)])
          IN [node |-> node, port |-> IF node = NoNode THEN 0 ELSE SocksPort(raw)]
-----------------------------------------------------------------------------
(* The request names the target; the response is cut off what follows it.  *)

Number16(n) == <<n \div 256, n % 256>>
\* A target is an address of 4 or 16 bytes or a name.
Address(target) ==
  CASE target[1] = "ip4" -> <<1>> \o target[2]
    [] target[1] = "ip6" -> <<3>> \o target[2]
    [] target[1] = "name" -> <<2, Len(target[2])>> \o target[2]
BuildVLESSHeader(uuid, target, port) ==
  <<0>> \o uuid \o <<0, 1>> \o Number16(port) \o Address(target)

\* What a read of at most n bytes gives, and what is left of the messages.
\* A message that is used up is left, and one without bytes is passed over.
RECURSIVE WsRead(_, _)
WsRead(messages, n) ==
  IF messages = <<>> THEN [got |-> <<>>, left |-> <<>>]
  ELSE LET m == Head(messages)
       IN IF m = <<>> THEN WsRead(Tail(messages), n)
          ELSE [got |-> SubSeq(m, 1, Min({n, Len(m)})),
                left |-> <<SubSeq(m, n + 1, Len(m))>> \o Tail(messages)]

\* io.ReadFull and io.CopyN: reads until there are n bytes.
RECURSIVE ReadFull(_, _)
ReadFull(messages, n) ==
  IF n = 0 \/ messages = <<>> THEN [got |-> <<>>, left |-> messages]
  ELSE LET r == WsRead(messages, n)
           rest == ReadFull(r.left, n - Len(r.got))
       IN [got |-> r.got \o rest.got, left |-> rest.left]

\* Mistake: the response is taken to be one message.
OneMessage(messages) == [ok |-> messages # <<>>, left |-> Tail(messages)]

DropResponse(messages) ==
  LET head == ReadFull(messages, 2)
  IN IF Len(head.got) < 2 THEN [ok |-> FALSE, left |-> <<>>]
     ELSE LET addon == ReadFull(head.left, head.got[2])
          IN [ok |-> Len(addon.got) = head.got[2], left |-> addon.left]
-----------------------------------------------------------------------------
\* The node that an entry of the configuration stands for, when the proxy can
\* carry it; said in the order in which a reader looks for the fields.
Means(e) ==
  [name |-> IF e.named THEN e.name ELSE "vless-1", server |-> "srv", port |-> 7,
   uuid |-> "u1", tls |-> e.style # "short", sni |-> IF e.style = "short" THEN "srv" ELSE "sni",
   insecure |-> e.style # "long", network |-> e.net,
   path |-> IF e.style = "short" THEN "/" ELSE "/p",
   host |-> CASE e.style = "long" -> "host" [] e.style = "other" -> "sni" [] OTHER -> "srv"]

\* The same entry as an object: all fields, other names for them, or the least.
Entry(e) ==
  (CASE e.style = "long" ->
          [type |-> Text("VLESS"), server |-> Text("srv"), port |-> Num(7), uuid |-> Text("u1"),
           tls |-> Bool(TRUE), servername |-> Text("sni")]
            @@ ("skip-cert-verify" :> Bool(FALSE)) @@ ("insecure" :> Bool(TRUE))
            @@ ("ws-opts" :> Object([path |-> Text("p"),
                                     headers |-> Object([Host |-> Text("host")])]))
     [] e.style = "other" ->
          [server |-> Text("srv"), port |-> Text("7"), id |-> Text("u1"),
           TLS |-> Text("TRUE"), sni |-> Text("sni"), insecure |-> Num(1)]
            @@ ("ws-path" :> Text("/p"))
     [] e.style = "short" -> [server |-> Text("srv"), port |-> Num(7), uuid |-> Text("u1")])
  @@ (IF e.named THEN [name |-> Text(e.name)] ELSE <<>>)
  @@ (CASE e.net = "tcp" -> <<>> [] e.net = "ws" -> [network |-> Text("WS")]
        [] e.net = "grpc" -> [network |-> Text("grpc")])
  @@ (CASE e.flaw = "none" -> [flow |-> Text(" ")] [] e.flaw = "flow" -> [flow |-> Text("vision")]
        [] e.flaw = "reality" -> ("reality-opts" :> Object(<<>>))
        [] e.flaw = "no port" -> <<>>)

Carried(e) == e.net # "grpc" /\ e.flaw \in {"none", "no port"}
Config(es, index, name, ports) ==
  [proxies |-> List([i \in DOMAIN es |->
     Object(IF es[i].flaw = "no port" THEN Restrict(Entry(es[i]), DOMAIN Entry(es[i]) \ {"port"})
            ELSE Entry(es[i]))])]
  @@ ports
  @@ (IF index = <<>> THEN <<>> ELSE ("proxy-index" :> Num(index[1])))
  @@ (IF name = "" THEN <<>> ELSE ("proxy-name" :> Text(name)))

\* What docs/CLASH_VLESS.md promises: the first proxy is used, over tcp.
Documented(es, index, name) ==
  index = <<>> /\ name = "" /\ (es # <<>> => Carried(es[1]) /\ es[1].net = "tcp")
FirstProxy(es) == {1} \cap DOMAIN es

\* What it denies and the code's own comments allow (clash_vless.go:26, 253 and
\* 281): websockets, a proxy wanted by its number or its name, and the next one
\* when a proxy cannot be carried.
FirstThatFits(es, index, name) ==
  LET fits == {i \in DOMAIN es : /\ Carried(es[i])
                                 /\ index \in {<<>>, <<-1>>, <<i - 1>>}
                                 /\ name # "" => es[i].named /\ es[i].name = name}
  IN IF fits = {} THEN {} ELSE {Min(fits)}

\* The node started is the proxy chosen, with every field as its entry says it,
\* on the port that the first key gives that holds one; a proxy chosen and
\* without a port is an error.
ConfigRead(es, index, name, ports, port) ==
  LET chosen == IF Documented(es, index, name) THEN FirstProxy(es)
                ELSE FirstThatFits(es, index, name)
      read == ParseClashConfig(Config(es, index, name, ports))
  IN IF \A i \in chosen : es[i].flaw = "no port" THEN read.node = NoNode
     ELSE \E i \in chosen : read = [node |-> Means(es[i]), port |-> port]

\* What the server takes off a request: the number of bytes that it needs is
\* told by the bytes before, so that nothing of the payload is taken with it.
Asked(bytes) ==
  LET at == 1 + 16 + 1 + 1
      kind == bytes[at + 3]
      len == CASE kind = 1 -> 4 [] kind = 3 -> 16 [] kind = 2 -> bytes[at + 4]
      from == IF kind = 2 THEN at + 4 ELSE at + 3
  IN [uuid |-> SubSeq(bytes, 2, 17), port |-> bytes[at + 1] * 256 + bytes[at + 2],
      target |-> <<kind, SubSeq(bytes, from + 1, from + len)>>,
      payload |-> SubSeq(bytes, from + len + 1, Len(bytes))]
RequestRead(uuid, target, port, payload) ==
  Asked(BuildVLESSHeader(uuid, target, port) \o payload) =
    [uuid |-> uuid, port |-> port, payload |-> payload,
     target |-> <<CASE target[1] = "ip4" -> 1 [] target[1] = "ip6" -> 3 [] OTHER -> 2, target[2]>>]

\* However the server cuts its response and the data into messages, the relay
\* gets the data and nothing else, and a response cut short is an error.
ResponseDropped(addon, data, cuts) ==
  LET whole == <<0, Len(addon)>> \o addon \o data
      ends == SetToSortSeq({c \in cuts : c <= Len(whole)} \cup {Len(whole)}, <)
      messages == [i \in DOMAIN ends |->
                     SubSeq(whole, (IF i = 1 THEN 0 ELSE ends[i - 1]) + 1, ends[i])]
      full == DropResponse(messages)
      short == DropResponse(Front(messages))
  IN /\ full.ok /\ FlattenSeq(full.left) = data
     /\ ReadFull(full.left, Len(data)).got = data
     /\ short.ok <=> Len(FlattenSeq(Front(messages))) >= 2 + Len(addon)
=============================================================================
