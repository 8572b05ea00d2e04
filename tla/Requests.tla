------------------------------ MODULE Requests ------------------------------
(***************************************************************************)
(* What a client and the server say to each other: the request encoders of  *)
(* codes/infra/client.cpp (namespace decode), one record for each, and the  *)
(* answers of Server::response.  The "kind" of a message tells them apart.  *)
(***************************************************************************)

sign_in(name, pw) == [kind |-> "sign_in", username |-> name, password |-> pw]

check_username_is_free(name) == [kind |-> "free_username", username |-> name]

sign_up(name, pw, money, ph, a) ==
    [kind |-> "sign_up", username |-> name, password |-> pw, balance |-> money,
     phone |-> ph, addr |-> a]

get_user_info(tk) == [kind |-> "user_info", token |-> tk]

get_users(tk) == [kind |-> "view_users_info", token |-> tk]

get_rooms_info(tk) == [kind |-> "view_rooms_info", token |-> tk]

book_room(tk, room, beds, in, out) ==
    [kind |-> "booking", token |-> tk, roomID |-> room, beds_count |-> beds,
     check_in |-> in, check_out |-> out]

get_reservations(tk) == [kind |-> "view_reservations", token |-> tk]

cancel_booking(tk, room, beds) ==
    [kind |-> "canceling", token |-> tk, roomID |-> room, beds_count |-> beds]

passing_time(tk, n) == [kind |-> "passing_time", token |-> tk, days |-> n]

edit_information(tk, pw, ph, a) ==
    [kind |-> "edit_information", token |-> tk, pass |-> pw, phone |-> ph, addr |-> a]

leave_room(tk, room) == [kind |-> "leaving", token |-> tk, roomID |-> room]

empty_room(tk, room) == [kind |-> "emptying", token |-> tk, roomID |-> room]

add_room(tk, room, capacity, cost) ==
    [kind |-> "add_room", token |-> tk, roomID |-> room, max_cap |-> capacity,
     price |-> cost]

modify_room(tk, room, capacity, cost) ==
    [kind |-> "modify_room", token |-> tk, roomID |-> room, max_cap |-> capacity,
     price |-> cost]

remove_room(tk, room) == [kind |-> "remove_room", token |-> tk, roomID |-> room]

logout(tk) == [kind |-> "logout", token |-> tk]

(* What the server answers: only sign_in gives a token and a privilege. *)
response(status, tk, admin) ==
    [kind |-> status, token |-> tk, privilege |-> admin]

(* Nothing is on its way. *)
silence == [kind |-> "silence"]

RequestKinds ==
    {"sign_in", "free_username", "sign_up", "user_info", "view_users_info",
     "view_rooms_info", "booking", "view_reservations", "canceling", "passing_time",
     "edit_information", "leaving", "emptying", "add_room", "modify_room",
     "remove_room", "logout"}
=============================================================================
