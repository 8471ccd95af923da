--------------------------- MODULE MCFindRequest ---------------------------
(* Int32 reaches to 7 and Int64 to 127. A filter holds every kind of leaf  *)
(* on its own, each edge of both integer widths, and what a container may  *)
(* hold at fault: a bad value, a bad key, and either behind a good one.    *)
EXTENDS FindRequest

Leaf(class, content) == [class |-> class, content |-> content]
Oid(content, prints) == [class |-> "ObjectId", content |-> content, printable |-> prints]
Key(text)            == [class |-> "str", text |-> text]
Dict(items)          == [class |-> "dict", items |-> items]
One(value)           == Dict(<<[key |-> Key(1), value |-> value]>>)
Two(first, second)   == Dict(<<[key |-> Key(1), value |-> first], [key |-> Key(2), value |-> second]>>)
Keyed(key, value)    == Dict(<<[key |-> key, value |-> value]>>)
List(items)          == [class |-> "list", items |-> items]
Tuple(items)         == [class |-> "tuple", items |-> items]

None   == Leaf("NoneType", 0)
Small  == Leaf("int", 1)
TooBig == Leaf("int", 128)

Leaves ==
    {None, Leaf("bool", 1), Leaf("float", 5), Leaf("bytes", 5), Oid(5, TRUE), Leaf("str", 5), Leaf("str", Unpaired)}
    \cup {Leaf("int", n) : n \in {-129, -128, -9, -8, 7, 8, 127}}

Faulty == {TooBig, Leaf("set", 0), Oid(5, FALSE)}

AllFilters ==
    {One(v) : v \in Leaves} \cup {One(List(<<Small, v>>)) : v \in Faulty}
    \cup {One(Two(None, v)) : v \in Faulty}
    \cup {Dict(<<>>), Two(Small, Tuple(<<Leaf("bool", 0), One(Leaf("str", Unpaired))>>)),
          Two(TooBig, Leaf("set", 0)), One(List(<<List(<<Small>>), One(TooBig)>>)),
          Keyed([class |-> "int", text |-> 1], Small), One(Keyed(Key(Unpaired), Small)),
          One(List(<<Keyed(Key(Unpaired), TooBig)>>))}

SomeFilters == {One(Leaf("str", 5)), One(Leaf("str", Unpaired))}

AllProjections == {One(Leaf("int", 0)), Two(Leaf("bool", 1), TooBig)}

----------------------------------------------------------------------------
PartsOf(v) ==
    CASE v.class = "dict" -> {v.items[i].value : i \in DOMAIN v.items}
      [] v.class \in {"list", "tuple"} -> {v.items[i] : i \in DOMAIN v.items}
      [] OTHER -> {}

RECURSIVE Within(_)
Within(v) == {v} \cup UNION {Within(w) : w \in PartsOf(v)}

RECURSIVE DepthOf(_)
DepthOf(v) == IF PartsOf(v) = {} THEN 0 ELSE 1 + Max({DepthOf(w) : w \in PartsOf(v)})

AllValues == UNION {Within(v) : v \in AllFilters \cup AllProjections}
============================================================================
