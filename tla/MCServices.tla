----------------------------- MODULE MCServices -----------------------------
(***************************************************************************)
(* ServiceParts for TLC: some configurations, some declarations.           *)
(***************************************************************************)
EXTENDS ServiceParts, TLC

CONSTANTS x, y, d, e

SomeNodes == {Hub, Executor, x, y, d, e}

\* Configurations.  The hub needs x and y; d and e are what these hold or
\* need; or there is a cycle, or a name that no section defines.
Configuration(services, protocol, depends) ==
  [services |-> services, protocol |-> protocol @@ [n \in SomeNodes |-> <<>>],
   depends |-> depends @@ [n \in SomeNodes |-> {}], parallel |-> FALSE]
Apps == {Hub, Executor, x, y}

Chain    == Configuration(Apps, x :> <<d>> @@ d :> <<e>>, Hub :> {x, y})
Diamond  == Configuration(Apps \union {d}, y :> <<e>>, Hub :> {x, y} @@ x :> {d} @@ y :> {d})
Cycle    == Configuration(Apps, x :> <<d>>, Hub :> {x} @@ x :> {y} @@ y :> {x})
Misnamed == Configuration(Apps, x :> <<d>>, Hub :> {Unknown})
SomeConfigs == {Chain, Diamond, Cycle, Misnamed, [Diamond EXCEPT !.parallel = TRUE]}

\* Declarations: commands, an abstract one, an event, one of another service,
\* a command of a class that names x, a handler called like a command; no
\* handlers; and a handler that is not there.
Class(alias, event, call, own, destination) ==
  [alias |-> alias, event |-> event, call |-> call, own |-> own, destination |-> destination]
Declaring(classes, handlers, methods) ==
  [order |-> <<Hub, x, y>>, classes |-> classes @@ [n \in SomeNodes |-> {}],
   handlers |-> handlers @@ [n \in SomeNodes |-> {}], methods |-> methods @@ [n \in SomeNodes |-> {}]]
SomeClasses ==
  x :> {Class("A", FALSE, TRUE, FALSE, Unknown), Class("B", FALSE, FALSE, FALSE, Unknown),
        Class("E", TRUE, FALSE, FALSE, Unknown), Class("F", TRUE, TRUE, TRUE, <<y, "F">>)} @@
  y :> {Class("A", FALSE, TRUE, FALSE, <<x, "A">>), Class("m", FALSE, TRUE, FALSE, Unknown)}
SomeHandlers == x :> {<<"t", "m">>} @@ y :> {<<"t", "m">>, <<"u", "m">>}
SomeDeclarations ==
  {Declaring(SomeClasses, SomeHandlers, x :> {"m"} @@ y :> {"m"}),
   Declaring(SomeClasses, SomeHandlers, x :> {"m"}),
   Declaring(SomeClasses, x :> {}, x :> {})}

\* While another part is exercised, the configuration does not matter.
MCInit ==
  /\ PartsInit
  /\ subject # "Services" => run = "service" /\ config = Misnamed
  /\ subject # "Registry" => entry = "bootstrap" /\ declared.handlers[x] = {}

\* The keys and the values of the caches are alike.
Alike == Permutations(Keys) \union Permutations(Values)

MCSpec == MCInit /\ [][PartsNext]_partsVars
=============================================================================
