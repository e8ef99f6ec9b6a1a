SPECIFICATION Spec
CONSTANTS
    Programs = {"add_note", "add_appt", "add_chrono", "add_countdn", "add_interval", "add_contact", "add_occasion", "add_schedule", "del_note", "del_appt", "del_chrono", "del_countdn", "del_contact", "del_occasion", "del_schedule", "print_note", "print_appt", "print_chrono", "print_contact", "print_occasion", "print_schedule", "print_countdn", "print_chrono_report", "export_chrono_csv", "sysinfo_dlusb", "dump_dlusb", "load_dlusb", "lock_dlusb", "tod_dlusb", "option_dlusb", "unused_note", "unused_appt", "unused_chrono"}
    MaxItems = 3
CHECK_DEADLOCK FALSE
INVARIANTS TypeOK ZeroTells SyncIdTells
PROPERTIES StoreAfterRead Ends
