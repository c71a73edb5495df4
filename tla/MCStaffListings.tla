--------------------------- MODULE MCStaffListings ---------------------------
(* Two requests on one listing while registrations come and lapse; one at a  *)
(* time on two listings of one plot; and two clients, one of which may send  *)
(* more than the form does, that enter one plot in different units and with  *)
(* figures at the limits of what is rounded and of what is accepted.         *)
EXTENDS StaffListings, TLC
CONSTANTS l1, l2, r1, r2

\* Every listing is in the same state, at the same plot.
InPunjab == [l \in Listings |-> CHOOSE s \in States : TRUE]
OnePlot == [l \in Listings |-> "plot 12"]
RequestSymmetry == Permutations(Requests)
MCScenes == {
    [listings |-> {l1}, requests |-> {r1, r2}, prices |-> {1}, lastDay |-> 1,
     createdAs |-> {"ACTIVE", "PENDING_REVIEW", "SOLD"},
     updatedTo |-> {"ACTIVE", "SOLD", "PENDING_REVIEW"}],
    [listings |-> {l1, l2}, requests |-> {r1}, prices |-> {1, 2}, lastDay |-> 0,
     createdAs |-> {"ACTIVE", "PENDING_REVIEW"}, updatedTo |-> {"ACTIVE", "SOLD"}],
    [listings |-> {}, requests |-> {}, prices |-> {}, lastDay |-> 0,
     createdAs |-> {}, updatedTo |-> {}]}

MCStart == [lat |-> 3073, lng |-> 7677]
Kothi == [price |-> [value |-> 145, unit |-> "cr"],
          area |-> [value |-> 1000, unit |-> "MARLA", basis |-> "PLOT"],
          plotNumber |-> 1, bedrooms |-> 4, type |-> "kothi", where |-> MCStart]
MCForms == {
    Kothi,
    [Kothi EXCEPT !.price = [value |-> 8500, unit |-> "lakh"], !.bedrooms = 3,
                  !.area = [value |-> 272250, unit |-> "SQ_FT", basis |-> "PLOT"]],
    [Kothi EXCEPT !.price = [value |-> 9999, unit |-> "k"], !.type = "plot", !.bedrooms = None,
                  !.area = [value |-> 55, unit |-> "KANAL", basis |-> "PLOT"], !.plotNumber = None],
    [Kothi EXCEPT !.price = [value |-> 145, unit |-> "million"], !.area.value = 0, !.where = None]}
Sent == [price |-> 999999999, plotNumber |-> 1, bedrooms |-> 20, type |-> "kothi", where |-> MCStart,
         areas |-> [CARPET |-> 150000, BUILT_UP |-> None, PLOT |-> 272250],
         input |-> [value |-> 1000, unit |-> "MARLA", factor |-> 27225, basis |-> "PLOT"]]
MCPayloads == {
    Sent, [Sent EXCEPT !.where = [lat |-> 7677, lng |-> 3073]],
    [Sent EXCEPT !.areas["BUILT_UP"] = 149999], [Sent EXCEPT !.input.unit = None]}
=============================================================================
