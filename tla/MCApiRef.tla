------------------------------ MODULE MCApiRef -------------------------------
(***************************************************************************)
(* Applications of four structs, one of them anonymous and two with the    *)
(* same name, whose fields refer to each other in every way; and           *)
(* registries and routers of one application that have drifted apart.      *)
(***************************************************************************)
EXTENDS Coverage

Structs == {"user.Item", "user.Page", "shop.Item", "inline"}
Wrapped == {"[]user.Item", "*user.Page", "map shop.Item", "[]inline", "time"}
Types == Structs \cup Wrapped

KindOf == [t \in Types |-> CASE t \in Structs -> "struct"
                             [] t \in {"[]user.Item", "[]inline"} -> "slice"
                             [] t = "*user.Page" -> "pointer"
                             [] t = "map shop.Item" -> "map"
                             [] OTHER -> "plain"]
ElemOf == [t \in Types |-> CASE t = "[]user.Item" -> "user.Item"
                             [] t = "[]inline" -> "inline"
                             [] t = "*user.Page" -> "user.Page"
                             [] OTHER -> t]
NameOf == [t \in Types |-> CASE t \in {"user.Item", "shop.Item"} -> "Item"
                             [] t = "user.Page" -> "Page"
                             [] OTHER -> ""]

FieldOf(n, t) == [json |-> n, hidden |-> FALSE, type |-> t]
Hidden(t) == [json |-> "x", hidden |-> TRUE, type |-> t]

(* An anonymous struct is written where it is used, so it mentions named   *)
(* structs and never itself.                                               *)
FieldsOf ==
  [t \in Structs |->
     CASE t = "user.Item" -> {<<>>} \cup {<<FieldOf("a", u), FieldOf("b", v)>> : u \in {"*user.Page", "inline", "shop.Item"},
                                          v \in {"[]user.Item", "map shop.Item", "time", "[]inline"}}
       [] t = "user.Page" -> {<<FieldOf("items", u), FieldOf(n, "shop.Item")>> : u \in {"[]user.Item", "user.Item", "*user.Page"}, n \in {"items", "b"}}
                               \cup {<<Hidden("shop.Item"), FieldOf("c", u)>> : u \in {"[]user.Item", "time"}}
       [] t = "shop.Item" -> {<<>>, <<FieldOf("c", "*user.Page")>>, <<FieldOf("c", "[]user.Item")>>}
       [] t = "inline" -> {<<FieldOf("d", u)>> : u \in {"time", "*user.Page", "[]user.Item"}}]

NoFields == [t \in Types |-> <<>>]

LinkedFields ==
  {[NoFields EXCEPT !["user.Item"] = i, !["user.Page"] = p, !["shop.Item"] = s, !["inline"] = l] :
     i \in FieldsOf["user.Item"], p \in FieldsOf["user.Page"],
     s \in FieldsOf["shop.Item"], l \in FieldsOf["inline"]}

AllFields == LinkedFields \cup {NoFields}

Route(m, p, response, request, status) ==
  [method |-> m, path |-> p, response |-> response, request |-> request, status |-> status]

BodyRegistries ==
  {<<Route("get", <<"a">>, r, NoType, 200), Route("post", <<"a">>, b[1], b[2], b[3])>> :
     r \in {"[]user.Item", "user.Page", NoType},
     b \in {<<"shop.Item", NoType, 200>>, <<"shop.Item", "*user.Page", 204>>,
            <<"[]inline", "shop.Item", 200>>, <<NoType, "user.Page", 200>>}}

(* What an application registers and documents, written as chi writes it.  *)
RegistryPaths == {<<"a">>, <<"a", "{id}">>}
PathRegistries ==
  {<<Route("get", p, NoType, NoType, 200), Route("post", q, NoType, NoType, 204)>> :
     p, q \in RegistryPaths}

AllRegistries == BodyRegistries \cup PathRegistries

Regex == [s \in {"{id:[0-9]+}", "{id:.*}"} |-> "{id}"]
Stars == {"*", "file*", "{id:.*}"}
Api == {<<"api">>}
Ignore == {<<"debug", "vars">>}

RouterPaths == {<<"api", "a">>, <<"api", "a", "{id:[0-9]+}">>, <<"api", "b", "{id:.*}">>, <<"a", "{id}", "/">>, <<"api", "b">>,
                <<"docs">>, <<"docs", "openapi.json">>, <<"api", "health">>, <<"api", "*">>,
                <<"api", "file*">>, <<"debug", "vars">>, <<"debug", "on">>}
Routes == [method : {"get", "post"}, path : RouterPaths]
Routers == {{r, s} : r, s \in Routes}

(* Bodies without a router, then routers without bodies.                   *)
MCApplications ==
  [fields : LinkedFields, registry : BodyRegistries, router : {{}}]
    \cup [fields : {NoFields}, registry : PathRegistries, router : Routers]
=============================================================================
