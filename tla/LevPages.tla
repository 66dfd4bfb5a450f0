-------------------------------- MODULE LevPages --------------------------------
(***************************************************************************)
(* The data pages of the LEV profile: the encoders and decoders of          *)
(* ant_lev/pages.                                                           *)
(*                                                                          *)
(* A page is the sequence of the seven bytes that follow its number.  An    *)
(* encoder makes it of the values d and of what the buffer held, a decoder  *)
(* returns the fields it stores: those of the page and those all pages      *)
(* share (ant_lev_common_data_t); it leaves every other field as it was.    *)
(***************************************************************************)
EXTENDS Integers, Sequences

\* The low byte of a value, and the nibble from the bit of weight "unit" up.
Low(v) == v % 256
Nibble(v, unit) == (v \div unit) % 16

\* "nibble | nibble", for the byte of page 4 that two fields share.
Either(m, n) ==
    LET Bit(u) == IF (m \div u) % 2 = 1 \/ (n \div u) % 2 = 1 THEN u ELSE 0
    IN  Bit(1) + Bit(2) + Bit(4) + Bit(8)

\* "msn & 0x0f << 8 | lsb" masks the byte with 0x0f00, for << binds stronger than &.
Masked(msn, lsb) == ((msn \div 256) % 16) * 256 + lsb

page_1_encode(d, buffer) ==
    <<d.temperature_state, d.travel_mode_state, d.system_state, d.gear_state, d.error_message,
      Low(d.lev_speed), Nibble(d.lev_speed, 256)>>

page_1_decode(page) ==
    [temperature_state |-> page[1], travel_mode_state |-> page[2], system_state |-> page[3],
     gear_state |-> page[4], error_message |-> page[5], lev_speed |-> Masked(page[7], page[6])]

page_2_encode(d, buffer) ==
    <<Low(d.odometer), Nibble(d.odometer, 256), Nibble(d.odometer, 65536),
      Low(d.remaining_range), Nibble(d.remaining_range, 256),
      Low(d.lev_speed), Nibble(d.lev_speed, 256)>>

\* The middle byte of the odometer is skipped.
page_2_decode(page) ==
    [odometer |-> page[3] * 256 + page[1], remaining_range |-> page[5] * 256 + page[4],
     lev_speed |-> Masked(page[7], page[6])]

page_3_encode(d, buffer) ==
    <<d.battery_soc, d.travel_mode_state, d.system_state, d.gear_state, d.assist,
      Low(d.lev_speed), Nibble(d.lev_speed, 256)>>

\* The system state is stored as the travel mode.
page_3_decode(page) ==
    [battery_soc |-> page[1], travel_mode_state |-> page[3], gear_state |-> page[4],
     assist |-> page[5], lev_speed |-> Masked(page[7], page[6])]

\* The consumption's upper nibble is taken from bit 12.
page_4_encode(d, buffer) ==
    <<buffer[1], Low(d.charging_cycle_count),
      Either(Nibble(d.charging_cycle_count, 256), Nibble(d.fuel_consumption, 4096)),
      Low(d.fuel_consumption), d.battery_voltage,
      Low(d.distance_on_current_charge), Nibble(d.distance_on_current_charge, 256)>>

\* The cycle count is skipped; "& 0x0f << 12" leaves nothing of a byte either.
page_4_decode(page) ==
    [fuel_consumption |-> ((page[3] \div 4096) % 16) * 4096 + page[4],
     battery_voltage |-> page[5], distance_on_current_charge |-> Masked(page[7], page[6])]

page_5_encode(d, buffer) ==
    <<buffer[1], d.travel_modes_supported, Low(d.wheel_circumference),
      Nibble(d.wheel_circumference, 256), buffer[5], buffer[6], buffer[7]>>

page_5_decode(page) ==
    [travel_modes_supported |-> page[2], wheel_circumference |-> Masked(page[4], page[3])]

\* The lights, the turn signals and the gears are not sent, ...
page_16_encode(d, buffer) ==
    <<Low(d.wheel_circumference), Nibble(d.wheel_circumference, 256), d.travel_mode,
      buffer[4], buffer[5], Low(d.manufacturer_id), Nibble(d.manufacturer_id, 256)>>

\* ... but decoded from the bits of the circumference and the manufacturer; the upper part
\* of the rear gear, "(msb & 0x02) >> 8", is always 0.
page_16_decode(page) ==
    [wheel_circumference |-> (page[2] % 16) * 256 + page[1], travel_mode |-> page[3],
     manufacturer_id |-> (page[7] % 16) * 256 + page[6],
     turn_signal_right |-> page[1] % 2, turn_signal_left |-> (page[6] \div 2) % 2,
     light_beam |-> (page[6] \div 4) % 2, light |-> (page[6] \div 8) % 2,
     current_front_gear |-> (page[6] \div 16) % 4, current_rear_gear |-> (page[6] \div 64) % 4]

page_34_encode(d, buffer) ==
    <<Low(d.odometer), Nibble(d.odometer, 256), Nibble(d.odometer, 65536),
      Low(d.fuel_consumption), Nibble(d.fuel_consumption, 256),
      Low(d.lev_speed), Nibble(d.lev_speed, 256)>>

page_34_decode(page) ==
    [odometer |-> Masked(page[3], page[1]), fuel_consumption |-> Masked(page[5], page[4]),
     lev_speed |-> Masked(page[7], page[6])]
=============================================================================
