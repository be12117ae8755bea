---------------------------- MODULE MCBookingBridge ----------------------------
EXTENDS BookingBridge

\* Booked, asked to change, changed, cancelled.
FullStory == <<"confirmed", "requested", "updated", "cancelled">>

\* The order that does most harm: the cancellation is looked at first.
LastFirst == <<"cancelled", "updated", "confirmed">>
=============================================================================
