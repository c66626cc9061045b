------------------------------- MODULE MyPages -------------------------------
(***************************************************************************)
(* The pages of a user beside the events themselves: the notifications     *)
(* with their badge, the invitations, the registration for push messages,  *)
(* the ticket, the favorite places and the profile.  They share no state   *)
(* in the clients, so that a behaviour follows one of them.                *)
(***************************************************************************)
EXTENDS NotificationList, MyInvitations, PushDevice, TicketScreen,
        FavoriteLocations, ProfileForm

vars == <<client, screen, exchange, noteVars, invitationVars, pushVars, ticketVars,
          favoriteVars, profileVars>>

Init ==
  /\ client \in {"web", "mobile"}
  /\ screen \in {"notifications", "invitations", "favorites", "profile"}
                 \cup IF Mobile THEN {"push", "tickets"} ELSE {}
  /\ sent = <<>> /\ answers = <<>> /\ lost = 0
  /\ NoteInit /\ InvitationInit /\ PushInit /\ TicketInit /\ FavoriteInit /\ ProfileInit

Next ==
  /\ \/ screen = "notifications" /\ NoteNext
        /\ UNCHANGED <<invitationVars, pushVars, ticketVars, favoriteVars, profileVars>>
     \/ screen = "invitations" /\ InvitationNext
        /\ UNCHANGED <<noteVars, pushVars, ticketVars, favoriteVars, profileVars>>
     \/ screen = "push" /\ PushNext
        /\ UNCHANGED <<noteVars, invitationVars, ticketVars, favoriteVars, profileVars>>
     \/ screen = "tickets" /\ TicketNext
        /\ UNCHANGED <<noteVars, invitationVars, pushVars, favoriteVars, profileVars>>
     \/ screen = "favorites" /\ FavoriteNext
        /\ UNCHANGED <<noteVars, invitationVars, pushVars, ticketVars, profileVars>>
     \/ screen = "profile" /\ ProfileNext
        /\ UNCHANGED <<noteVars, invitationVars, pushVars, ticketVars, favoriteVars>>
  /\ UNCHANGED <<client, screen>>

Spec == Init /\ [][Next]_vars

-----------------------------------------------------------------------------
(* When nothing is under way the lists are the server's: the notifications *)
(* that were read, the badge, no invitation the user has answered, and the *)
(* favorite places; and what the profile's form reported as saved is       *)
(* stored, with an address that belongs to the place on the map.           *)
ListsAreTrue ==
  /\ ListMatchesServer /\ BadgeMatchesServer /\ ConfirmedIsNotOffered
  /\ FavoritesAreShown /\ ProfileIsStored
=============================================================================
