------------------------------- MODULE MCChat -------------------------------
EXTENDS Chat
CONSTANTS alice, bob, carol
MCUsers == {alice, bob, carol}
Text == [type |-> "text"]
Title == [type |-> "state", key |-> "title", value |-> {}]
Media == [type |-> "media", owner |-> None]
Nobody == [u \in MCUsers |-> {}]
Base == [group |-> <<>>, senders |-> MCUsers, bodies |-> {Text}, invitees |-> Nobody, removals |-> {}, admins |-> {}, deletes |-> {},
         sends |-> 1, invites |-> 2, crashes |-> 0, torn |-> FALSE, reinvite |-> FALSE, split |-> FALSE]
Star == [Nobody EXCEPT ![alice] = {<<bob, carol>>}]
Chain3 == [Nobody EXCEPT ![alice] = {<<bob>>}, ![bob] = {<<carol>>}]
All == <<bob, carol>>
MCSettings ==
  { [Base EXCEPT !.split = TRUE, !.invitees = Chain3, !.sends = 0, !.crashes = 1],
    [Base EXCEPT !.split = TRUE, !.group = <<bob>>, !.bodies = {Media, Title}, !.sends = 2, !.crashes = 1],
    [Base EXCEPT !.group = <<bob>>, !.invitees = Chain3, !.senders = {alice}, !.sends = 2],
    [Base EXCEPT !.group = All, !.bodies = {Title}, !.senders = {bob, carol}, !.sends = 2],
    [Base EXCEPT !.group = All, !.bodies = {}, !.removals = {<<bob, carol>>, <<carol, carol>>},
                 !.admins = {<<alice, bob>>}, !.deletes = {carol}],
    [Base EXCEPT !.group = All, !.bodies = {Media}, !.removals = {<<carol, carol>>}] }
GroupSettings == {[Base EXCEPT !.group = All, !.bodies = {Title}, !.sends = 3]}
MediaSettings == {[Base EXCEPT !.group = All, !.bodies = {Media}, !.sends = 1]}
=============================================================================
