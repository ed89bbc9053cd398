------------------------- MODULE MCLearningMaintenance -------------------------
(* One maintenance process, ids for the legacy row and a few monthly ones,   *)
(* the last day of a year and the days after it.                             *)
EXTENDS LearningMaintenance

MCMoments == {Moment(2023, 12, 31, Before), Moment(2023, 12, 31, OnTime), Moment(2023, 12, 31, After),
              Moment(2024, 1, 1, Before), Moment(2024, 1, 30, After)}
===============================================================================
