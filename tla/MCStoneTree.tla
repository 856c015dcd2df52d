----------------------------- MODULE MCStoneTree -----------------------------
(* Small instances of StoneTree: a new room with a new stone in it, changes  *)
(* to a stone both sides have, and to a stone that is gone.                  *)
EXTENDS StoneTree, TLC

CONSTANTS c1, c2

Stored(id, category, parent, type, reference) ==
    [id |-> id, category |-> category, parent |-> parent, type |-> type, reference |-> reference]

LampAtHome ==
    {Stored(<<"room">>, "locations", NoId, "", NoId), Stored(<<"lamp">>, "stones", NoId, "", <<"room">>),
     Stored(<<"twilight">>, "behaviours", <<"lamp">>, "", NoId)}

I(id, category, above, type, reference, new, newer) ==
    [id |-> id, category |-> category, above |-> above, type |-> type, reference |-> reference,
     new |-> new, newer |-> newer]

\* The children of the new stone are not marked as new.
NewRoom == << I(<<"myRoom">>, "locations", 0, "", NoId, TRUE, FALSE),
              I(<<"myLamp">>, "stones", 0, "", <<"myRoom">>, TRUE, FALSE),
              I(<<"myRule">>, "behaviours", 2, "", NoId, FALSE, FALSE),
              I(<<"myDimmer">>, "abilities", 2, "dimming", NoId, FALSE, FALSE),
              I(<<"mySpeed">>, "properties", 4, "speed", NoId, FALSE, FALSE) >>

Changes == << I(<<"room">>, "locations", 0, "", NoId, FALSE, TRUE),
              I(<<"lamp">>, "stones", 0, "", <<"room">>, FALSE, FALSE),
              I(<<"twilight">>, "behaviours", 2, "", NoId, FALSE, TRUE),
              I(<<"dimmer">>, "abilities", 2, "dimming", NoId, TRUE, FALSE),
              I(<<"speed">>, "properties", 4, "speed", NoId, TRUE, FALSE) >>

Unknown == << I(<<"oldLamp">>, "stones", 0, "", NoId, FALSE, TRUE),
              I(<<"rule">>, "behaviours", 1, "", NoId, TRUE, FALSE) >>

AllRequests == {NewRoom, Changes, Unknown}

Symmetric == Permutations(Calls)
=============================================================================
